---- MODULE Spec2Model ----
(***************************************************************************)
(* A model of the-feed: the library store (links, engagements,             *)
(* time_preferences, ranking_events), the handlers that write to it        *)
(* (POST /links, PUT /upload, POST /engagement, PATCH and DELETE           *)
(* /links/{id}, GET /feed), POST /unfurl with the SSRF-safe fetcher of     *)
(* src/lib/unfurl.ts, and the ranking stages of src/lib/feed-algorithm.ts  *)
(* and src/lib/reranker.ts.                                                *)
(*                                                                         *)
(* Every `await db...` of a handler is one statement of the store (the     *)
(* neon-http driver sends each statement on its own, autocommitted), so a  *)
(* handler is a sequence of atomic steps that other requests interleave    *)
(* with.  Scores are fixed-point numbers in thousandths (SCALE).           *)
(***************************************************************************)
EXTENDS Integers, Sequences, FiniteSets, TLC

VARIABLES
    links,            \* the links table: a set of rows
    engagements,      \* the engagements table: a set of event rows
    timePreferences,  \* the time_preferences table: a set of rows
    lreq,             \* POST /links, POST /upload and PUT /upload requests in flight
    ereq,             \* POST /engagement requests in flight
    clock,            \* the server's wall clock (a tick per request)
    lastCall,         \* the last PATCH, DELETE or GET /feed answered: [op, status]
    HOST_SAFETY_CACHE,\* unfurl.ts: hostname -> safe?
    dns,              \* what each hostname resolves to now (the resolver's answer)
    fx,               \* the fetchWithSafety (or assertSafeUrl) call in progress
    hreq,             \* calls of assertPublicHostname by requests that overlap
    ureq,             \* the POST /unfurl request in flight
    rk,               \* the ranking pipeline at work on one candidate list
    reranker,         \* reranker.ts: the model cache of the process, and its environment
    greq,             \* GET /feed requests in flight
    rankingEvents     \* the ranking_events table: a set of rows

dbVars    == <<links, engagements, timePreferences>>
linkVars  == <<lreq>>
engVars   == <<ereq, clock, lastCall>>
fetchVars == <<HOST_SAFETY_CACHE, dns, fx>>
guardVars == <<hreq>>
unfurlVars == <<ureq>>
\* The state of the handlers, which the fetcher's own steps leave alone.
rankVars == <<rk, reranker, greq, rankingEvents>>
callerVars == <<linkVars, engVars, guardVars, unfurlVars, rankVars>>
vars      == <<links, engagements, timePreferences, lreq, ereq, clock, lastCall,
               HOST_SAFETY_CACHE, dns, fx, hreq, ureq, rk, reranker, greq,
               rankingEvents>>

Max(a, b) == IF a >= b THEN a ELSE b
Min(a, b) == IF a <= b THEN a ELSE b

NULL == "null"

(***************************************************************************)
(*                       The SSRF-safe fetcher                             *)
(***************************************************************************)

\* A limit that lets one redirect more through.
LooseRedirectLimit == 4 + 1

MAX_REDIRECTS == 4

ALLOWED_PROTOCOLS == {"http:", "https:"}

\* How many calls of fetchWithSafety one run makes, and how often the
\* resolver's answers change.
MaxCalls == 2
MaxDnsChanges == 1

\* IPv4 addresses are their four parts.
PubA  == <<93, 184, 216, 34>>
PubB  == <<8, 8, 8, 8>>
PrivA == <<10, 0, 0, 1>>
PrivB == <<192, 168, 1, 1>>
MetaA == <<169, 254, 169, 254>>
LoopA == <<127, 0, 0, 1>>

\* Hostnames: registered names (resolved through DNS), names on the block
\* list, and IP literals.
DnsNames     == {"example.com", "rebind.test"}
BlockedNames == {"localhost", "db.internal"}
IpLiterals   == {PubA, PrivA, MetaA}

IpText(ip) ==
    CASE ip = PubA  -> "93.184.216.34"
      [] ip = PubB  -> "8.8.8.8"
      [] ip = PrivA -> "10.0.0.1"
      [] ip = PrivB -> "192.168.1.1"
      [] ip = MetaA -> "169.254.169.254"
      [] ip = LoopA -> "127.0.0.1"

\* A hostname is [name, ip]: ip is the parsed literal, or <<>> for a name.
HostOfName(n) == [name |-> n, ip |-> <<>>]
HostOfIp(ip)  == [name |-> IpText(ip), ip |-> ip]

Hosts == {HostOfName(n) : n \in DnsNames \cup BlockedNames}
            \cup {HostOfIp(ip) : ip \in IpLiterals}

\* The answers the resolver can give for a name.
DnsAnswers == {{}, {PubA}, {PubA, PrivB}, {PrivA}}

\* A parsed URL: protocol, whether it carries credentials, and the hostname.
Urls ==
    {[protocol |-> "https:", creds |-> FALSE, host |-> h] : h \in Hosts}
      \cup {[protocol |-> "ftp:", creds |-> FALSE, host |-> HostOfName("example.com")],
            [protocol |-> "https:", creds |-> TRUE, host |-> HostOfName("example.com")]}

\* The unsigned 32-bit value of an address, as its two 16-bit halves <<high, low>>
\* (the whole value exceeds TLC's integers); halves compare in order.
ipv4ToInt(ip) == <<ip[1] * 256 + ip[2], ip[3] * 256 + ip[4]>>

U32Leq(x, y) == x[1] < y[1] \/ (x[1] = y[1] /\ x[2] <= y[2])

inRange(n, start, end) == U32Leq(ipv4ToInt(start), n) /\ U32Leq(n, ipv4ToInt(end))

isPrivateIp(ip) ==
    LET n == ipv4ToInt(ip) IN
        \/ inRange(n, <<0, 0, 0, 0>>, <<0, 255, 255, 255>>)
        \/ inRange(n, <<10, 0, 0, 0>>, <<10, 255, 255, 255>>)
        \/ inRange(n, <<100, 64, 0, 0>>, <<100, 127, 255, 255>>)
        \/ inRange(n, <<127, 0, 0, 0>>, <<127, 255, 255, 255>>)
        \/ inRange(n, <<169, 254, 0, 0>>, <<169, 254, 255, 255>>)
        \/ inRange(n, <<172, 16, 0, 0>>, <<172, 31, 255, 255>>)
        \/ inRange(n, <<192, 0, 0, 0>>, <<192, 0, 0, 255>>)
        \/ inRange(n, <<192, 0, 2, 0>>, <<192, 0, 2, 255>>)
        \/ inRange(n, <<192, 168, 0, 0>>, <<192, 168, 255, 255>>)
        \/ inRange(n, <<198, 18, 0, 0>>, <<198, 19, 255, 255>>)
        \/ inRange(n, <<224, 0, 0, 0>>, <<239, 255, 255, 255>>)
        \/ inRange(n, <<240, 0, 0, 0>>, <<255, 255, 255, 255>>)

\* endsWith(".localhost" | ".local" | ".internal"), on the names of the model.
HasBlockedSuffix(name) == name \in {"db.internal"}

isBlockedHostname(h) ==
    \/ h.name \in {"localhost", "127.0.0.1", "0.0.0.0", "::1",
                   "metadata.google.internal", "169.254.169.254"}
    \/ HasBlockedSuffix(h.name)

isIpLiteral(h) == h.ip # <<>>

isRedirect(status) == status >= 300 /\ status < 400

\* addresses.every((addr) => !isPrivateIp(addr.address))
AllPublicSome(addresses) == \E a \in addresses : ~isPrivateIp(a)
AllPublic(addresses) == \A a \in addresses : ~isPrivateIp(a)

\* No URL: the Location header is missing, no call has been made.
NoUrl == [protocol |-> "", creds |-> FALSE, host |-> HostOfName("")]

\* The responses a server can give: a status and a Location header (a URL or none).
Responses ==
    {[status |-> 200, location |-> NoUrl], [status |-> 404, location |-> NoUrl],
     [status |-> 302, location |-> NoUrl]}
      \cup {[status |-> 302, location |-> u] : u \in Urls}

\* fx: the call of fetchWithSafety in progress.
\*   pc          where the call stands: "idle", "assert" (assertSafeUrl up to the
\*               lookup), "dns" (awaiting dns.lookup), "fetch" (awaiting fetch),
\*               "returned", "thrown"
\*   currentUrl  the loop's currentUrl
\*   i           the loop counter
\*   nreq        requests this call has issued
\*   fetched     every URL any call has requested
\*   response    the response the call returned, or the last one it received
\*   error       the message of the error thrown
\*   calls, changes   calls made, resolver changes made
\*   guardOnly   the call is unfurlUrl's own assertSafeUrl(parsed), not a fetch
NoResponse == [status |-> 0, location |-> NoUrl]

\* hreq[c]: a call of assertPublicHostname by one of two requests of the process
\* that overlap.
\*   pc     "idle", "called", "lookup" (awaiting dns.lookup), "returned", "thrown"
\*   host   the hostname
\*   calls  calls made
Callers == {"h1", "h2"}
MaxGuardCalls == 2
IdleGuard == [pc |-> "idle", host |-> HostOfName(""), calls |-> 0]
GuardsIdle == hreq = [c \in Callers |-> IdleGuard]

InitFetch ==
    /\ GuardsIdle
    /\ HOST_SAFETY_CACHE = [h \in Hosts |-> "absent"]
    /\ dns \in [DnsNames -> {{PubA}, {PubA, PrivB}}]
    /\ fx = [pc |-> "idle", currentUrl |-> NoUrl, i |-> 0, nreq |-> 0, fetched |-> {},
             response |-> NoResponse, error |-> NULL, calls |-> 0, changes |-> 0,
             guardOnly |-> FALSE]

Throw(msg) == fx' = [fx EXCEPT !.pc = "thrown", !.error = msg]

\* assertSafeUrl returns: fetchWithSafety goes on to its fetch, unfurlUrl's own
\* guard returns to unfurlUrl.
Pass == fx' = [fx EXCEPT !.pc = IF fx.guardOnly THEN "returned" ELSE "fetch"]

\* fetchWithSafety(url, init): let currentUrl = url; i = 0
CallFetchWithSafety(url) ==
    /\ fx.pc \in {"idle", "returned", "thrown"}
    /\ fx.calls < MaxCalls
    /\ fx' = [fx EXCEPT !.pc = "assert", !.currentUrl = url, !.i = 0, !.nreq = 0,
                        !.response = NoResponse, !.error = NULL,
                        !.calls = fx.calls + 1, !.guardOnly = FALSE]
    /\ UNCHANGED <<HOST_SAFETY_CACHE, dns, dbVars, callerVars>>

\* assertSafeUrl(parsed) and assertPublicHostname up to its await of dns.lookup.
AssertSafeUrl ==
    /\ fx.pc = "assert"
    /\ LET url == fx.currentUrl
           h == url.host
       IN  IF url.protocol \notin ALLOWED_PROTOCOLS
           THEN Throw("Only http/https URLs are allowed") /\ UNCHANGED HOST_SAFETY_CACHE
           ELSE IF url.creds
           THEN Throw("URLs with credentials are not allowed")
                    /\ UNCHANGED HOST_SAFETY_CACHE
           ELSE IF HOST_SAFETY_CACHE[h] # "absent"
           THEN /\ IF HOST_SAFETY_CACHE[h] = "unsafe"
                   THEN Throw("Host blocked")
                   ELSE Pass
                /\ UNCHANGED HOST_SAFETY_CACHE
           ELSE IF isBlockedHostname(h)
           THEN /\ HOST_SAFETY_CACHE' = [HOST_SAFETY_CACHE EXCEPT ![h] = "unsafe"]
                /\ Throw("Host blocked")
           ELSE IF isIpLiteral(h)
           THEN LET safe == ~isPrivateIp(h.ip) IN
                /\ HOST_SAFETY_CACHE' =
                       [HOST_SAFETY_CACHE EXCEPT ![h] = IF safe THEN "safe" ELSE "unsafe"]
                /\ IF safe
                   THEN Pass
                   ELSE Throw("Private network targets are not allowed")
           ELSE fx' = [fx EXCEPT !.pc = "dns"] /\ UNCHANGED HOST_SAFETY_CACHE
    /\ UNCHANGED <<dns, dbVars, callerVars>>

\* dns.lookup(normalizedHost, { all: true }) answers; the decision is cached.
DnsLookup ==
    /\ fx.pc = "dns"
    /\ LET h == fx.currentUrl.host
           addresses == dns[h.name]
       IN  IF addresses = {}
           THEN /\ HOST_SAFETY_CACHE' = [HOST_SAFETY_CACHE EXCEPT ![h] = "unsafe"]
                /\ Throw("Host resolution failed")
           ELSE LET safe == AllPublic(addresses) IN
                /\ HOST_SAFETY_CACHE' =
                       [HOST_SAFETY_CACHE EXCEPT ![h] = IF safe THEN "safe" ELSE "unsafe"]
                /\ IF safe
                   THEN Pass
                   ELSE Throw("Private network targets are not allowed")
    /\ UNCHANGED <<dns, dbVars, callerVars>>

\* Fetch, but a followed redirect is requested without going through assertSafeUrl.
FetchUncheckedRedirect(resp) ==
    /\ fx.pc = "fetch"
    /\ LET sent == [fx EXCEPT !.nreq = fx.nreq + 1,
                              !.fetched = fx.fetched \cup {fx.currentUrl},
                              !.response = resp]
       IN  IF ~isRedirect(resp.status) \/ resp.location = NoUrl
           THEN fx' = [sent EXCEPT !.pc = "returned"]
           ELSE IF fx.i + 1 <= MAX_REDIRECTS
           THEN fx' = [sent EXCEPT !.pc = "fetch", !.currentUrl = resp.location,
                                   !.i = fx.i + 1]
           ELSE fx' = [sent EXCEPT !.pc = "thrown", !.currentUrl = resp.location,
                                   !.i = fx.i + 1, !.error = "Too many redirects"]
    /\ UNCHANGED <<HOST_SAFETY_CACHE, dns, dbVars, callerVars>>

\* fetch(parsed.toString(), { redirect: "manual" }) answers with `resp`; the loop
\* returns it, or follows its Location, or gives up after the last iteration.
Fetch(resp) ==
    /\ fx.pc = "fetch"
    /\ LET sent == [fx EXCEPT !.nreq = fx.nreq + 1,
                              !.fetched = fx.fetched \cup {fx.currentUrl},
                              !.response = resp]
       IN  IF ~isRedirect(resp.status) \/ resp.location = NoUrl
           THEN fx' = [sent EXCEPT !.pc = "returned"]
           ELSE IF fx.i + 1 <= MAX_REDIRECTS
           THEN fx' = [sent EXCEPT !.pc = "assert", !.currentUrl = resp.location,
                                   !.i = fx.i + 1]
           ELSE fx' = [sent EXCEPT !.pc = "thrown", !.currentUrl = resp.location,
                                   !.i = fx.i + 1, !.error = "Too many redirects"]
    /\ UNCHANGED <<HOST_SAFETY_CACHE, dns, dbVars, callerVars>>

\* fetch rejects (network error, timeout): the error leaves fetchWithSafety.
FetchFails ==
    /\ fx.pc = "fetch"
    /\ fx' = [fx EXCEPT !.pc = "thrown", !.nreq = fx.nreq + 1,
                        !.fetched = fx.fetched \cup {fx.currentUrl},
                        !.response = NoResponse, !.error = "fetch failed"]
    /\ UNCHANGED <<HOST_SAFETY_CACHE, dns, dbVars, callerVars>>

\* The resolver's answer for a name changes (a short TTL, a rebinding attacker).
DnsChange(n, answer) ==
    /\ fx.changes < MaxDnsChanges
    /\ dns[n] # answer
    /\ dns' = [dns EXCEPT ![n] = answer]
    /\ fx' = [fx EXCEPT !.changes = fx.changes + 1]
    /\ UNCHANGED <<HOST_SAFETY_CACHE, dbVars, callerVars>>

\* The steps of the overlapping calls leave the rest alone.
GuardFrame == UNCHANGED <<dns, fx, dbVars, linkVars, engVars, unfurlVars, rankVars>>

\* A request calls assertPublicHostname(hostname).
CallAssertPublicHostname(c, h) ==
    /\ hreq[c].pc \in {"idle", "returned", "thrown"}
    /\ hreq[c].calls < MaxGuardCalls
    /\ hreq' = [hreq EXCEPT ![c] = [pc |-> "called", host |-> h,
                                    calls |-> hreq[c].calls + 1]]
    /\ UNCHANGED HOST_SAFETY_CACHE
    /\ GuardFrame

\* assertPublicHostname up to its await of dns.lookup.
AssertPublicHostname(c) ==
    /\ hreq[c].pc = "called"
    /\ LET h == hreq[c].host IN
           IF HOST_SAFETY_CACHE[h] # "absent"
           THEN /\ hreq' = [hreq EXCEPT ![c].pc =
                               IF HOST_SAFETY_CACHE[h] = "unsafe" THEN "thrown"
                               ELSE "returned"]
                /\ UNCHANGED HOST_SAFETY_CACHE
           ELSE IF isBlockedHostname(h)
           THEN /\ HOST_SAFETY_CACHE' = [HOST_SAFETY_CACHE EXCEPT ![h] = "unsafe"]
                /\ hreq' = [hreq EXCEPT ![c].pc = "thrown"]
           ELSE IF isIpLiteral(h)
           THEN LET safe == ~isPrivateIp(h.ip) IN
                /\ HOST_SAFETY_CACHE' =
                       [HOST_SAFETY_CACHE EXCEPT ![h] = IF safe THEN "safe" ELSE "unsafe"]
                /\ hreq' = [hreq EXCEPT ![c].pc = IF safe THEN "returned" ELSE "thrown"]
           ELSE hreq' = [hreq EXCEPT ![c].pc = "lookup"] /\ UNCHANGED HOST_SAFETY_CACHE
    /\ GuardFrame

\* The call's dns.lookup answers; the call sets the entry of the hostname.
HostnameLookup(c) ==
    /\ hreq[c].pc = "lookup"
    /\ LET h == hreq[c].host
           addresses == dns[h.name]
           safe == addresses # {} /\ AllPublic(addresses)
       IN  /\ HOST_SAFETY_CACHE' =
                  [HOST_SAFETY_CACHE EXCEPT ![h] = IF safe THEN "safe" ELSE "unsafe"]
           /\ hreq' = [hreq EXCEPT ![c].pc = IF safe THEN "returned" ELSE "thrown"]
    /\ GuardFrame

\* Two requests of the process call assertPublicHostname while the resolver's
\* answers change.
NextCache ==
    \/ \E c \in Callers, h \in Hosts : CallAssertPublicHostname(c, h)
    \/ \E c \in Callers : AssertPublicHostname(c)
    \/ \E c \in Callers : HostnameLookup(c)
    \/ \E n \in DnsNames, answer \in DnsAnswers : DnsChange(n, answer)

NextFetch ==
    \/ \E url \in Urls : CallFetchWithSafety(url)
    \/ AssertSafeUrl
    \/ DnsLookup
    \/ \E resp \in Responses : Fetch(resp)
    \/ FetchFails
    \/ \E n \in DnsNames, answer \in DnsAnswers : DnsChange(n, answer)

(***************************************************************************)
(*                         The library store                               *)
(***************************************************************************)

Users == {"alice", "bob"}

\* Requests that add entries, and the number of URLs one bulk request carries.
Procs == {"p1", "p2"}
MaxBulk == 2

\* What a client can submit as a URL: two web addresses, the address of a host
\* of a private network, an address of another scheme, text that does not parse,
\* and nothing.
WebUrls   == {"https://x/y", "https://z/"}
Submitted == WebUrls \cup {"http://10.0.0.1/", "ftp://x/y", "not a url", ""}

\* new URL(value): whether it parses, and the protocol it then has.
UrlParses(value) == value \in WebUrls \cup {"http://10.0.0.1/", "ftp://x/y"}
UrlProtocol(value) ==
    IF value \in WebUrls THEN "https:"
    ELSE IF value = "http://10.0.0.1/" THEN "http:" ELSE "ftp:"

\* unfurlUrl(url) throws when its assertSafeUrl rejects the URL; past the guard
\* every failure ends in fallbackResult.
UnfurlThrows(url) == url \in {"http://10.0.0.1/", "ftp://x/y"}

isHttpUrl(value) ==
    UrlParses(value) /\ UrlProtocol(value) \in {"http:", "https:"}

\* The category lists the categorizer returns (CATEGORIES of src/types/index.ts;
\* ["Fun"] is its fallback).
CategoryLists == {<<"Fun">>, <<"AI", "Tech">>}

\* nanoid(12) of request p, k-th draw: ids are distinct by construction.
NewId(p, k) == <<p, k>>

NoRow == [id |-> <<"none", 0>>]

\* A row of links as the insert of POST /links, PUT /upload and POST /upload
\* leaves it: the columns the handlers of the model read or write, the others at
\* their schema defaults.
NewLink(id, userId, url, categories) ==
    [id |-> id, userId |-> userId, url |-> url, categories |-> categories,
     status |-> "active", shownCount |-> 0, openCount |-> 0,
     engagementScore |-> 0, avgDwellMs |-> 0, lastShownAt |-> 0, likedAt |-> 0]

\* The duplicate check of POST /links and PUT /upload:
\* where(and(eq(links.url, url), eq(links.userId, userId)))
ExistingAnyUser(userId, url) == {row \in links : row.url = url}
Existing(userId, url) == {row \in links : row.url = url /\ row.userId = userId}

\* lreq[p]: one request in flight.
\*   op       "POST /links", "POST /upload", "PUT /upload", or "none"
\*   pc       "idle", "check", "unfurl", "insert", "done"
\*   userId   the session's user
\*   url      the URL in hand
\*   rest     PUT /upload: the URLs of the batch still to do
\*   k        ids drawn so far
\*   categories  what the categorizer returned
\*   results  PUT /upload: the status of each URL done
\*   status   the HTTP status answered (0 while in flight)
\*   link     the row the answer carries
\*   dupAtStart  whether the user had the URL when the request arrived
\*   overlapped  whether another request was in flight at any time of this one
IdleReq ==
    [op |-> "none", pc |-> "idle", userId |-> "", url |-> "", rest |-> <<>>, k |-> 0,
     categories |-> <<>>, results |-> <<>>, status |-> 0, link |-> NoRow,
     dupAtStart |-> FALSE, overlapped |-> FALSE]

InFlight(q) == lreq[q].pc \notin {"idle", "done"}

\* Request p arrives as `req`: it and the requests in flight now overlap.
Arrive(p, req) ==
    [q \in Procs |->
        IF q = p THEN [req EXCEPT !.overlapped = \E o \in Procs \ {p} : InFlight(o)]
        ELSE IF InFlight(q) /\ req.pc # "done"
        THEN [lreq[q] EXCEPT !.overlapped = TRUE]
        ELSE lreq[q]]

InitLinkReqs == lreq = [p \in Procs |-> IdleReq]

LinkFrame ==
    UNCHANGED <<engagements, timePreferences, engVars, fetchVars, guardVars,
                unfurlVars, rankVars>>

Answer(p, status, link) ==
    lreq' = [lreq EXCEPT ![p].pc = "done", ![p].status = status, ![p].link = link]

\* POST /links arrives: the body's url is validated.
PostLinks(p, userId, url) ==
    /\ lreq[p].pc = "idle"
    /\ IF url = "" \/ ~isHttpUrl(url)
       THEN lreq' = Arrive(p, [IdleReq EXCEPT !.op = "POST /links",
                         !.pc = "done", !.userId = userId, !.url = url, !.status = 400])
       ELSE lreq' = Arrive(p, [IdleReq EXCEPT !.op = "POST /links",
                         !.pc = "check", !.userId = userId, !.url = url,
                         !.dupAtStart =
                             \E row \in links : row.userId = userId /\ row.url = url])
    /\ UNCHANGED links
    /\ LinkFrame

\* The duplicate check: 409 with an existing row (limit 1), or go on.
PostLinksCheck(p) ==
    /\ lreq[p].op = "POST /links"
    /\ lreq[p].pc = "check"
    /\ LET existing == Existing(lreq[p].userId, lreq[p].url) IN
           IF existing # {}
           THEN \E row \in existing : Answer(p, 409, row)
           ELSE lreq' = [lreq EXCEPT ![p].pc = "unfurl"]
    /\ UNCHANGED links
    /\ LinkFrame

\* unfurlUrl, categorizeContent, generateEmbedding: unfurlUrl throws when the
\* SSRF guard rejects the URL (the handler does not catch it: 500); the
\* categorizer and the embedder fall back instead of throwing.
PostLinksUnfurl(p, categories) ==
    /\ lreq[p].op = "POST /links"
    /\ lreq[p].pc = "unfurl"
    /\ IF UnfurlThrows(lreq[p].url)
       THEN Answer(p, 500, NoRow)
       ELSE lreq' = [lreq EXCEPT ![p].pc = "insert", ![p].categories = categories]
    /\ UNCHANGED links
    /\ LinkFrame

\* db.insert(links).values({...}).returning(): 201 with the new row.
PostLinksInsert(p) ==
    /\ lreq[p].op = "POST /links"
    /\ lreq[p].pc = "insert"
    /\ LET row == NewLink(NewId(p, 1), lreq[p].userId, lreq[p].url, lreq[p].categories)
       IN  /\ links' = links \cup {row}
           /\ lreq' = [lreq EXCEPT ![p].pc = "done", ![p].status = 201,
                                   ![p].link = row, ![p].k = 1]
    /\ LinkFrame

\* POST /upload: an image or a text, stored with url = null (the payload was valid).
PostUpload(p, userId, categories) ==
    /\ lreq[p].pc = "idle"
    /\ LET row == NewLink(NewId(p, 1), userId, NULL, categories) IN
           /\ links' = links \cup {row}
           /\ lreq' = Arrive(p, [IdleReq EXCEPT !.op = "POST /upload",
                          !.pc = "done", !.userId = userId, !.url = NULL, !.k = 1,
                          !.categories = categories, !.status = 201, !.link = row])
    /\ LinkFrame

\* PUT /upload moves to the next URL of the batch, or answers 200.
BulkNext(p, result) ==
    LET results == Append(lreq[p].results, result)
        rest == Tail(lreq[p].rest)
    IN  IF rest = <<>>
        THEN [lreq[p] EXCEPT !.pc = "done", !.status = 200, !.results = results,
                             !.rest = rest]
        ELSE [lreq[p] EXCEPT !.pc = "check", !.results = results, !.rest = rest,
                             !.url = Head(rest)]

\* PUT /upload arrives with its urls (an empty array: 400).
PutUpload(p, userId, urls) ==
    /\ lreq[p].pc = "idle"
    /\ IF urls = <<>>
       THEN lreq' = Arrive(p, [IdleReq EXCEPT !.op = "PUT /upload",
                         !.pc = "done", !.userId = userId, !.status = 400])
       ELSE lreq' = Arrive(p, [IdleReq EXCEPT !.op = "PUT /upload",
                         !.pc = "check", !.userId = userId, !.rest = urls,
                         !.url = Head(urls)])
    /\ UNCHANGED links
    /\ LinkFrame

\* One URL of the batch: new URL(url) throws ("error"), or the duplicate check
\* finds a row ("duplicate"), or the URL goes on to be unfurled.
PutUploadCheck(p) ==
    /\ lreq[p].op = "PUT /upload"
    /\ lreq[p].pc = "check"
    /\ IF ~UrlParses(lreq[p].url)
       THEN lreq' = [lreq EXCEPT ![p] = BulkNext(p, "error")]
       ELSE IF Existing(lreq[p].userId, lreq[p].url) # {}
       THEN lreq' = [lreq EXCEPT ![p] = BulkNext(p, "duplicate")]
       ELSE lreq' = [lreq EXCEPT ![p].pc = "unfurl"]
    /\ UNCHANGED links
    /\ LinkFrame

\* unfurlUrl and the categorizer for one URL of the batch; a throw is caught.
PutUploadUnfurl(p, categories) ==
    /\ lreq[p].op = "PUT /upload"
    /\ lreq[p].pc = "unfurl"
    /\ IF UnfurlThrows(lreq[p].url)
       THEN lreq' = [lreq EXCEPT ![p] = BulkNext(p, "error")]
       ELSE lreq' = [lreq EXCEPT ![p].pc = "insert", ![p].categories = categories]
    /\ UNCHANGED links
    /\ LinkFrame

\* The insert of one URL of the batch ("added").
PutUploadInsert(p) ==
    /\ lreq[p].op = "PUT /upload"
    /\ lreq[p].pc = "insert"
    /\ LET k == lreq[p].k + 1
           row == NewLink(NewId(p, k), lreq[p].userId, lreq[p].url, lreq[p].categories)
       IN  /\ links' = links \cup {row}
           /\ lreq' = [lreq EXCEPT ![p] = [BulkNext(p, "added") EXCEPT !.k = k]]
    /\ LinkFrame

BulkLists ==
    {<<>>} \cup UNION {[1..n -> {"https://x/y", "http://10.0.0.1/", "not a url"}] :
                          n \in 1..MaxBulk}

NextLinks ==
    \/ \E p \in Procs, u \in Users, url \in Submitted : PostLinks(p, u, url)
    \/ \E p \in Procs : PostLinksCheck(p)
    \/ \E p \in Procs, c \in CategoryLists : PostLinksUnfurl(p, c)
    \/ \E p \in Procs : PostLinksInsert(p)
    \/ \E p \in Procs, u \in Users, c \in CategoryLists : PostUpload(p, u, c)
    \/ \E p \in Procs, u \in Users, urls \in BulkLists : PutUpload(p, u, urls)
    \/ \E p \in Procs : PutUploadCheck(p)
    \/ \E p \in Procs, c \in CategoryLists : PutUploadUnfurl(p, c)
    \/ \E p \in Procs : PutUploadInsert(p)

(***************************************************************************)
(*                        Engagement ingestion                             *)
(***************************************************************************)

\* Thousandths: 1000 is the score 1.0.
SCALE == 1000

\* POST /engagement requests of one run, the events one request carries, the
\* shownCount a seeded entry starts with, and the requests the clock admits.
Reqs == {"e1", "e2"}
MaxEvents == 2
MaxShown0 == 2
MaxClock == 3

\* The entries the store holds when the run starts: one of alice, one of bob.
L1 == <<"seed", 1>>
L2 == <<"seed", 2>>

SeedLink(id, userId, url, categories, shown, score, dwell) ==
    [NewLink(id, userId, url, categories) EXCEPT
        !.shownCount = shown, !.engagementScore = score, !.avgDwellMs = dwell]

\* Seeded states <<shownCount, engagementScore, avgDwellMs>>: an entry not dwelt
\* on has no score, one shown and dwelt on has one.
SeedStates ==
    {<<n, 0, 0>> : n \in 0..MaxShown0} \cup {<<n, 600, 4000>> : n \in 1..MaxShown0}

InitStore ==
    \E st \in SeedStates :
        links = {SeedLink(L1, "alice", "https://x/y", <<"AI", "Tech">>,
                          st[1], st[2], st[3]),
                 SeedLink(L2, "bob", "https://x/y", <<"AI">>, 1, 0, 0)}

\* An event of the request body.  dwellTimeMs = 0 and swipeVelocity = -1 stand
\* for a missing field; swipeVelocity is in thousandths of px/ms.
Event(linkId, eventType, dwellTimeMs, swipeVelocity) ==
    [linkId |-> linkId, eventType |-> eventType, dwellTimeMs |-> dwellTimeMs,
     swipeVelocity |-> swipeVelocity]

NoVelocity == 0 - 1

EventSamples ==
    {Event(L1, "impression", 0, NoVelocity),
     Event(L1, "open", 0, NoVelocity),
     Event(L1, "dwell", 10000, 300),
     Event(L1, "dwell", 1000, 3000)}

\* The two forms of the request body: {events: [...]}, or one event object.
BatchBodies ==
    {[events |-> b] : b \in UNION {[1..n -> EventSamples] : n \in 1..MaxEvents}}

\* JSON values that are no event: null (as a body or as an element of events),
\* and a linkId that is not a string.  <<>> is the empty string as linkId.
NullJson   == [json |-> "null"]
NotAString == <<"number", 7>>

\* Events that isEngagementPayload is to drop.
InvalidSamples ==
    {NullJson,
     Event(<<>>, "impression", 0, NoVelocity),
     Event(NotAString, "open", 0, NoVelocity),
     Event(L1, "like", 0, NoVelocity)}

\* Bodies that mix the two kinds, a body that is one object, and null.
MixedBodies ==
    {[events |-> b] :
        b \in UNION {[1..n -> {Event(L1, "impression", 0, NoVelocity),
                               Event(L1, "dwell", 10000, 300)} \cup InvalidSamples]
                       : n \in 0..MaxEvents}}
    \cup InvalidSamples \cup {Event(L1, "open", 0, NoVelocity)}

\* Array.isArray(body?.events) ? body.events : body ? [body] : []
RawEvents(body) ==
    IF body = NullJson THEN <<>>
    ELSE IF "events" \in DOMAIN body THEN body.events ELSE <<body>>

\* A filter that does not look at eventType.
isEngagementPayloadAnyType(event) ==
    /\ "linkId" \in DOMAIN event
    /\ event.linkId \notin {NotAString, <<>>}

isEngagementPayload(event) ==
    /\ "linkId" \in DOMAIN event
    /\ event.linkId # NotAString
    /\ event.linkId # <<>>
    /\ event.eventType \in {"impression", "dwell", "open"}

\* aggregateCounts: a Map linkId -> count in the order of first occurrence,
\* as the sequence of its entries <<linkId, count>>.
aggregateCounts(events, eventType) ==
    LET Bump(counts, linkId) ==
            IF \E j \in DOMAIN counts : counts[j][1] = linkId
            THEN [j \in DOMAIN counts |->
                     IF counts[j][1] = linkId
                     THEN <<linkId, counts[j][2] + 1>> ELSE counts[j]]
            ELSE Append(counts, <<linkId, 1>>)
        F[i \in 0..Len(events)] ==
            IF i = 0 THEN <<>>
            ELSE IF events[i].eventType # eventType THEN F[i - 1]
            ELSE Bump(F[i - 1], events[i].linkId)
    IN  F[Len(events)]

\* Math.log(1 + dwellSeconds) / Math.log(1 + 120) * 0.7 in thousandths, for the
\* dwell times of EventSamples (the logarithm is tabulated): ln 2 / ln 121 = 0.1445,
\* ln 11 / ln 121 = 0.5, ln 121 / ln 121 = 1.
LogDwell(dwellTimeMs) ==
    CASE dwellTimeMs = 1000 -> 101
      [] dwellTimeMs = 10000 -> 350
      [] dwellTimeMs = 120000 -> 700
      [] OTHER -> 934

\* computeEngagementScore without its final clamp.
computeEngagementScoreUnclamped(dwellTimeMs, swipeVelocity) ==
    LET dwellScore == Min(700, LogDwell(dwellTimeMs))
        velocityPenalty ==
            IF swipeVelocity # NoVelocity
            THEN Min(200, Max(0, ((swipeVelocity - 500) * 100) \div SCALE))
            ELSE 0
    IN  dwellScore - velocityPenalty

computeEngagementScore(dwellTimeMs, swipeVelocity) ==
    LET dwellScore == Min(700, LogDwell(dwellTimeMs))
        velocityPenalty ==
            IF swipeVelocity # NoVelocity
            THEN Min(200, Max(0, ((swipeVelocity - 500) * 100) \div SCALE))
            ELSE 0
        score == dwellScore - velocityPenalty
    IN  Max(0, Min(SCALE, score))

\* An update that counts an entry once for a request.
ShownCountOncePerRequest(row, count) == row.shownCount + 1

\* shownCount: sql`${links.shownCount} + ${count}`
ShownCountExpr(row, count) == row.shownCount + count

\* engagementScore: CASE WHEN shown_count <= 1 THEN s ELSE (old * (n - 1) + s) / n END
EngagementScoreOverwritten(row, s) == s
EngagementScoreExpr(row, s) ==
    IF row.shownCount <= 1 THEN s
    ELSE (row.engagementScore * (row.shownCount - 1) + s) \div row.shownCount

\* avgDwellMs: ROUND(CASE ... END)::int over integer columns.
AvgDwellExpr(row, dwellTimeMs) ==
    IF row.shownCount <= 1 THEN dwellTimeMs
    ELSE (row.avgDwellMs * (row.shownCount - 1) + dwellTimeMs) \div row.shownCount

\* An update that finds the row by its id alone.
UpdateLinkById(id, userId, set) ==
    {IF row.id = id THEN set[row] ELSE row : row \in links}

\* update(links).set(...).where(and(eq(links.id, id), eq(links.userId, userId)))
UpdateLink(id, userId, set) ==
    {IF row.id = id /\ row.userId = userId THEN set[row] ELSE row : row \in links}

\* The unique index time_prefs_user_slot_category_uniq.
PrefKey(row) == <<row.userId, row.hourSlot, row.dayType, row.category>>
NoUniqueIndex(key) == FALSE
UniqueViolation(key) == \E row \in timePreferences : PrefKey(row) = key

\* The hour and the kind of day of a clock value: a run lies within one hour.
HourOf(now) == 9
DayTypeOf(now) == "weekday"

\* ereq[r]: one POST /engagement in flight.
\*   pc      "idle", "insert", "impressions", "opens", "selectLinks", "dwell",
\*           "selectPrefs", "upsert", "done", "failed"
\*   events  the valid events of the body
\*   now     the handler's `now`
\*   impQ, openQ   the entries of impressionCounts / openCounts still to apply
\*   dwellQ  the dwell events still to apply
\*   categoriesByLink   the rows of the dwellLinks select, <<id, categories>>
\*   contributions      preferenceContributions: <<category, sum, count>> entries
\*   existing  the rows updateTimePreferences selected
\*   prefQ   the contributions still to upsert
\*   k       ids drawn
\*   status  the HTTP status answered (0 while in flight)
IdleEng ==
    [pc |-> "idle", userId |-> "", raw |-> <<>>, events |-> <<>>, now |-> 0,
     impQ |-> <<>>,
     openQ |-> <<>>, dwellQ |-> <<>>, categoriesByLink |-> {}, contributions |-> <<>>,
     existing |-> {}, prefQ |-> <<>>, k |-> 0, status |-> 0]

\* The body of a PATCH /links/{id}.  shownCount is what the client sent:
\* "absent", "number" (with its value) or "text" (parseInt gives NaN).
Body(archived, shownKind, shownValue, liked, incrementShown) ==
    [archived |-> archived, shownKind |-> shownKind, shownValue |-> shownValue,
     liked |-> liked, incrementShown |-> incrementShown]

NoBody == Body(FALSE, "absent", 0, "absent", FALSE)

PatchBodies ==
    {NoBody,
     Body(TRUE, "absent", 0, "absent", FALSE),
     Body(FALSE, "number", 0 - 1, "absent", FALSE),
     Body(FALSE, "number", 1, "absent", FALSE),
     Body(FALSE, "text", 0, "absent", FALSE),
     Body(FALSE, "absent", 0, "yes", FALSE),
     Body(FALSE, "absent", 0, "no", FALSE),
     Body(FALSE, "absent", 0, "absent", TRUE),
     Body(FALSE, "number", 0, "absent", TRUE)}

NoCall == [op |-> "none", status |-> 0]

InitEng ==
    /\ ereq = [r \in Reqs |-> IdleEng]
    /\ clock = 0
    /\ lastCall = NoCall

EngFrame == UNCHANGED <<lreq, lastCall, fetchVars, guardVars, unfurlVars, rankVars>>

IsDwell(event) == event.eventType = "dwell" /\ event.dwellTimeMs > 0

\* A handler that turns to the dwell events before the counts.
AfterCountsDwellFirst(q) ==
    IF q.dwellQ # <<>> THEN [q EXCEPT !.pc = "selectLinks"]
    ELSE IF q.impQ # <<>> THEN [q EXCEPT !.pc = "impressions"]
    ELSE IF q.openQ # <<>> THEN [q EXCEPT !.pc = "opens"]
    ELSE [q EXCEPT !.pc = "done", !.status = 200]

\* Where the handler goes once the impression and open updates still to do are
\* known: the first stage with work left.
AfterCounts(q) ==
    IF q.impQ # <<>> THEN [q EXCEPT !.pc = "impressions"]
    ELSE IF q.openQ # <<>> THEN [q EXCEPT !.pc = "opens"]
    ELSE IF q.dwellQ # <<>> THEN [q EXCEPT !.pc = "selectLinks"]
    ELSE [q EXCEPT !.pc = "done", !.status = 200]

\* POST /engagement arrives: the body's events are filtered; none valid is 400.
PostEngagement(r, userId, body) ==
    /\ ereq[r].pc = "idle"
    /\ clock < MaxClock
    /\ clock' = clock + 1
    /\ LET rawEvents == RawEvents(body)
           events == SelectSeq(rawEvents, isEngagementPayload)
       IN  IF events = <<>>
           THEN ereq' = [ereq EXCEPT ![r] = [IdleEng EXCEPT !.pc = "done",
                             !.userId = userId, !.raw = rawEvents, !.status = 400]]
           ELSE ereq' = [ereq EXCEPT ![r] = [IdleEng EXCEPT !.pc = "insert",
                             !.userId = userId, !.raw = rawEvents, !.events = events,
                             !.now = clock + 1]]
    /\ UNCHANGED dbVars
    /\ EngFrame

\* db.insert(engagements).values(events.map(...)): every event row at once.
InsertEvents(r) ==
    /\ ereq[r].pc = "insert"
    /\ LET q == ereq[r]
           rows == {[id |-> NewId(r, j), userId |-> q.userId,
                     linkId |-> q.events[j].linkId,
                     eventType |-> q.events[j].eventType] : j \in DOMAIN q.events}
       IN  /\ engagements' = engagements \cup rows
           /\ ereq' = [ereq EXCEPT ![r] = AfterCounts(
                  [q EXCEPT !.k = Len(q.events),
                            !.impQ = aggregateCounts(q.events, "impression"),
                            !.openQ = aggregateCounts(q.events, "open"),
                            !.dwellQ = SelectSeq(q.events, IsDwell)])]
    /\ UNCHANGED <<links, timePreferences, clock>>
    /\ EngFrame

\* One entry of impressionCounts: shownCount += count, lastShownAt = now.
UpdateImpressions(r) ==
    /\ ereq[r].pc = "impressions"
    /\ LET q == ereq[r]
           entry == Head(q.impQ)
           Set(row) == [row EXCEPT !.shownCount = ShownCountExpr(row, entry[2]),
                                   !.lastShownAt = q.now]
       IN  /\ links' = UpdateLink(entry[1], q.userId, [row \in links |-> Set(row)])
           /\ ereq' = [ereq EXCEPT ![r] = AfterCounts([q EXCEPT !.impQ = Tail(q.impQ)])]
    /\ UNCHANGED <<engagements, timePreferences, clock>>
    /\ EngFrame

\* One entry of openCounts: openCount += count.
UpdateOpens(r) ==
    /\ ereq[r].pc = "opens"
    /\ LET q == ereq[r]
           entry == Head(q.openQ)
           Set(row) == [row EXCEPT !.openCount = row.openCount + entry[2]]
       IN  /\ links' = UpdateLink(entry[1], q.userId, [row \in links |-> Set(row)])
           /\ ereq' = [ereq EXCEPT ![r] = AfterCounts([q EXCEPT !.openQ = Tail(q.openQ)])]
    /\ UNCHANGED <<engagements, timePreferences, clock>>
    /\ EngFrame

\* The select of the dwell events' entries (id, categories) among the user's.
SelectDwellLinks(r) ==
    /\ ereq[r].pc = "selectLinks"
    /\ LET q == ereq[r]
           ids == {q.dwellQ[j].linkId : j \in DOMAIN q.dwellQ}
       IN  ereq' = [ereq EXCEPT ![r].pc = "dwell",
                       ![r].categoriesByLink =
                           {<<row.id, row.categories>> :
                               row \in {x \in links : x.userId = q.userId /\ x.id \in ids}}]
    /\ UNCHANGED <<dbVars, clock>>
    /\ EngFrame

\* preferenceContributions after one more dwell event on `categories`.
Contribute(contributions, categories, interactionScore) ==
    LET Add(cs, category) ==
            IF \E j \in DOMAIN cs : cs[j][1] = category
            THEN [j \in DOMAIN cs |->
                     IF cs[j][1] = category
                     THEN <<category, cs[j][2] + interactionScore, cs[j][3] + 1>>
                     ELSE cs[j]]
            ELSE Append(cs, <<category, interactionScore, 1>>)
        F[i \in 0..Len(categories)] ==
            IF i = 0 THEN contributions ELSE Add(F[i - 1], categories[i])
    IN  F[Len(categories)]

\* One dwell event: the running means of its entry, in one UPDATE evaluated by the
\* store on the row as it is now; then the event's contributions.
UpdateDwell(r) ==
    /\ ereq[r].pc = "dwell"
    /\ LET q == ereq[r]
           event == Head(q.dwellQ)
           interactionScore ==
               computeEngagementScore(event.dwellTimeMs, event.swipeVelocity)
           Set(row) ==
               [row EXCEPT !.engagementScore = EngagementScoreExpr(row, interactionScore),
                           !.avgDwellMs = AvgDwellExpr(row, event.dwellTimeMs)]
           found == {c \in q.categoriesByLink : c[1] = event.linkId}
           categories == IF found = {} THEN <<>> ELSE (CHOOSE c \in found : TRUE)[2]
           contributions == Contribute(q.contributions, categories, interactionScore)
           rest == Tail(q.dwellQ)
       IN  /\ links' = UpdateLink(event.linkId, q.userId, [row \in links |-> Set(row)])
           /\ ereq' = [ereq EXCEPT ![r] =
                  [q EXCEPT !.dwellQ = rest, !.contributions = contributions,
                            !.pc = IF rest # <<>> THEN "dwell"
                                   ELSE IF contributions = <<>> THEN "done"
                                   ELSE "selectPrefs",
                            !.status = IF rest = <<>> /\ contributions = <<>>
                                       THEN 200 ELSE 0]]
    /\ UNCHANGED <<engagements, timePreferences, clock>>
    /\ EngFrame

\* updateTimePreferences: the select of the rows of the slot and the categories.
SelectPrefs(r) ==
    /\ ereq[r].pc = "selectPrefs"
    /\ LET q == ereq[r]
           categories == {q.contributions[j][1] : j \in DOMAIN q.contributions}
       IN  ereq' = [ereq EXCEPT ![r].pc = "upsert",
                       ![r].prefQ = q.contributions,
                       ![r].existing =
                           {row \in timePreferences :
                               /\ row.hourSlot = HourOf(q.now)
                               /\ row.dayType = DayTypeOf(q.now)
                               /\ row.userId = q.userId
                               /\ row.category \in categories}]
    /\ UNCHANGED <<dbVars, clock>>
    /\ EngFrame

\* One contribution: an UPDATE by id with the values computed from the selected
\* row, or an INSERT, which the unique index rejects when the key is taken (the
\* handler then throws).
UpsertPref(r) ==
    /\ ereq[r].pc = "upsert"
    /\ LET q == ereq[r]
           c == Head(q.prefQ)
           rest == Tail(q.prefQ)
           found == {row \in q.existing : row.category = c[1]}
           next == [q EXCEPT !.prefQ = rest,
                             !.pc = IF rest = <<>> THEN "done" ELSE "upsert",
                             !.status = IF rest = <<>> THEN 200 ELSE 0]
       IN  IF found # {}
           THEN LET pref == CHOOSE row \in found : TRUE
                    newCount == pref.sampleCount + c[3]
                    newAvg == (pref.avgEngagement * pref.sampleCount + c[2]) \div newCount
                IN  /\ timePreferences' =
                           {IF row.id = pref.id
                            THEN [row EXCEPT !.avgEngagement = newAvg,
                                             !.sampleCount = newCount]
                            ELSE row : row \in timePreferences}
                    /\ ereq' = [ereq EXCEPT ![r] = next]
           ELSE LET row == [id |-> NewId(r, q.k + 1), userId |-> q.userId,
                            hourSlot |-> HourOf(q.now), dayType |-> DayTypeOf(q.now),
                            category |-> c[1], avgEngagement |-> c[2] \div c[3],
                            sampleCount |-> c[3]]
                IN  IF UniqueViolation(PrefKey(row))
                    THEN /\ ereq' = [ereq EXCEPT ![r].pc = "failed", ![r].status = 500]
                         /\ UNCHANGED timePreferences
                    ELSE /\ timePreferences' = timePreferences \cup {row}
                         /\ ereq' = [ereq EXCEPT ![r] = [next EXCEPT !.k = q.k + 1]]
    /\ UNCHANGED <<links, engagements, clock>>
    /\ EngFrame

\* The store fails the statement the handler is at (a dropped connection, a
\* timeout): the handler throws, the request answers 500.
EngagementDbError(r) ==
    /\ ereq[r].pc \in {"insert", "impressions", "opens", "selectLinks", "dwell",
                       "selectPrefs", "upsert"}
    /\ ereq' = [ereq EXCEPT ![r].pc = "failed", ![r].status = 500]
    /\ UNCHANGED <<dbVars, clock>>
    /\ EngFrame

(***************************************************************************)
(*              PATCH and DELETE /links/{id}, GET /feed                    *)
(***************************************************************************)

\* The entry the PATCH and DELETE requests of a run name (its owner's requests
\* find it, the other user's do not).
LinkIds == {L1}

CallFrame ==
    UNCHANGED <<engagements, timePreferences, lreq, ereq, fetchVars, guardVars,
                unfurlVars, rankVars>>

\* The `updates` object PATCH builds: whether it has any key.
HasUpdates(body) ==
    \/ body.archived
    \/ body.shownKind = "number"
    \/ body.liked # "absent"
    \/ body.incrementShown

\* The row after .set(updates): incrementShown is assigned last and wins.
Patched(row, body, now) ==
    [row EXCEPT
        !.status = IF body.archived THEN "archived" ELSE @,
        !.shownCount =
            IF body.incrementShown THEN @ + 1
            ELSE IF body.shownKind = "number" THEN Max(0, body.shownValue)
            ELSE @,
        !.lastShownAt =
            IF body.incrementShown \/ body.shownKind = "number" THEN now ELSE @,
        !.likedAt =
            IF body.liked = "yes" THEN now ELSE IF body.liked = "no" THEN 0 ELSE @]

\* PATCH /links/{id}: 400 without updates, 404 when no row of the user has the id.
Patch(userId, id, body) ==
    /\ clock < MaxClock
    /\ clock' = clock + 1
    /\ LET now == clock + 1
           hit == {row \in links : row.id = id /\ row.userId = userId}
           Set(row) == Patched(row, body, now)
       IN  IF ~HasUpdates(body)
           THEN /\ lastCall' = [op |-> "PATCH", status |-> 400]
                /\ UNCHANGED links
           ELSE /\ links' = UpdateLink(id, userId, [row \in links |-> Set(row)])
                /\ lastCall' = [op |-> "PATCH",
                                status |-> IF hit = {} THEN 404 ELSE 200]
    /\ CallFrame

\* DELETE /links/{id}: removes the user's row, 404 when there is none.
Delete(userId, id) ==
    /\ clock < MaxClock
    /\ clock' = clock + 1
    /\ LET hit == {row \in links : row.id = id /\ row.userId = userId} IN
           /\ links' = links \ hit
           /\ lastCall' = [op |-> "DELETE", status |-> IF hit = {} THEN 404 ELSE 200]
    /\ CallFrame

\* A feed handler that counts the entries it serves as shown.
GetFeedCountingShown(userId) ==
    /\ clock < MaxClock
    /\ clock' = clock + 1
    /\ lastCall' = [op |-> "GET /feed", status |-> 200]
    /\ links' = {IF row.userId = userId /\ row.status = "active"
                 THEN [row EXCEPT !.shownCount = @ + 1, !.lastShownAt = clock + 1]
                 ELSE row : row \in links}
    /\ CallFrame

\* GET /feed, as the other requests see it: it reads links and time_preferences
\* and its one write is the insert into ranking_events (its steps are the
\* section on GET /feed below).
GetFeed(userId) ==
    /\ clock < MaxClock
    /\ clock' = clock + 1
    /\ lastCall' = [op |-> "GET /feed", status |-> 200]
    /\ UNCHANGED links
    /\ CallFrame

\* A client of alice flushes a batch while another request, of either user,
\* posts one event.
NextEng ==
    \/ \E b \in BatchBodies : PostEngagement("e1", "alice", b)
    \/ \E u \in Users, e \in EventSamples : PostEngagement("e2", u, e)
    \/ \E r \in Reqs : InsertEvents(r)
    \/ \E r \in Reqs : UpdateImpressions(r)
    \/ \E r \in Reqs : UpdateOpens(r)
    \/ \E r \in Reqs : SelectDwellLinks(r)
    \/ \E r \in Reqs : UpdateDwell(r)
    \/ \E r \in Reqs : SelectPrefs(r)
    \/ \E r \in Reqs : UpsertPref(r)
    \/ \E r \in Reqs : EngagementDbError(r)

\* The body of the 200 response: {ok: true, processed: events.length}.
Processed(q) == Len(q.events)

\* One request whose body holds events of both kinds.
NextIngest ==
    \/ \E b \in MixedBodies : PostEngagement("e1", "alice", b)
    \/ InsertEvents("e1")
    \/ UpdateImpressions("e1")
    \/ UpdateOpens("e1")
    \/ SelectDwellLinks("e1")
    \/ UpdateDwell("e1")
    \/ SelectPrefs("e1")
    \/ UpsertPref("e1")
    \/ EngagementDbError("e1")

\* Batches whose events come in another order than their effects.
OrderBodies ==
    {[events |-> b] :
        b \in {<<Event(L1, "dwell", 10000, 300), Event(L1, "open", 0, NoVelocity),
                 Event(L1, "impression", 0, NoVelocity)>>,
               <<Event(L1, "dwell", 1000, 3000), Event(L1, "impression", 0, NoVelocity),
                 Event(L1, "dwell", 10000, 300), Event(L1, "open", 0, NoVelocity),
                 Event(L1, "impression", 0, NoVelocity)>>,
               <<Event(L1, "open", 0, NoVelocity), Event(L1, "dwell", 10000, 300)>>,
               <<Event(L1, "impression", 0, NoVelocity)>>}}

\* One request with such a batch.
NextOrder ==
    \/ \E b \in OrderBodies : PostEngagement("e1", "alice", b)
    \/ InsertEvents("e1")
    \/ UpdateImpressions("e1")
    \/ UpdateOpens("e1")
    \/ SelectDwellLinks("e1")
    \/ UpdateDwell("e1")
    \/ SelectPrefs("e1")
    \/ UpsertPref("e1")
    \/ EngagementDbError("e1")

\* A flush of one client that dwelt on one entry the same way several times.
SameDwellBodies ==
    {[events |-> [j \in 1..n |-> e]] :
        e \in {x \in EventSamples : x.eventType = "dwell"}, n \in 1..MaxEvents}

\* One POST /engagement (one event, or a batch of like dwell events) among
\* PATCH, DELETE and GET /feed requests.
NextCalls ==
    \/ \E e \in EventSamples : PostEngagement("e1", "alice", e)
    \/ \E b \in SameDwellBodies : PostEngagement("e1", "alice", b)
    \/ InsertEvents("e1")
    \/ UpdateImpressions("e1")
    \/ UpdateOpens("e1")
    \/ SelectDwellLinks("e1")
    \/ UpdateDwell("e1")
    \/ SelectPrefs("e1")
    \/ UpsertPref("e1")
    \/ EngagementDbError("e1")
    \/ \E u \in Users, id \in LinkIds, b \in PatchBodies : Patch(u, id, b)
    \/ \E u \in Users, id \in LinkIds : Delete(u, id)
    \/ \E u \in Users : GetFeed(u)

\* What bob's client sends about entries: events naming alice's entry L1, and a
\* dwell on his own entry L2 (which shares the category "AI" with L1).
CrossEvents == EventSamples \cup {Event(L2, "dwell", 10000, 300)}

\* One event, or a batch of an impression and a dwell on L1 and a dwell on L2.
CrossBodies ==
    CrossEvents \cup
    {[events |-> <<Event(L1, "impression", 0, NoVelocity),
                   Event(L1, "dwell", 10000, 300),
                   Event(L2, "dwell", 10000, 300)>>]}

\* alice dwells on her entry while bob's requests name her entry and his own:
\* every PATCH, DELETE and the POST /engagement "e2" of this run is bob's.
NextTenants ==
    \/ PostEngagement("e1", "alice", Event(L1, "dwell", 10000, 300))
    \/ \E b \in CrossBodies : PostEngagement("e2", "bob", b)
    \/ \E r \in Reqs : InsertEvents(r)
    \/ \E r \in Reqs : UpdateImpressions(r)
    \/ \E r \in Reqs : UpdateOpens(r)
    \/ \E r \in Reqs : SelectDwellLinks(r)
    \/ \E r \in Reqs : UpdateDwell(r)
    \/ \E r \in Reqs : SelectPrefs(r)
    \/ \E r \in Reqs : UpsertPref(r)
    \/ \E b \in PatchBodies : Patch("bob", L1, b)
    \/ \E id \in {L1, L2} : Delete("bob", id)

(***************************************************************************)
(*                             POST /unfurl                                *)
(***************************************************************************)

\* POST /unfurl requests one run makes.
MaxUnfurls == 2

\* What the body's url can be: a URL that parses, or nothing (NoUrl).
UnfurlBodies == Urls \cup {NoUrl}

\* isHttpUrl of the unfurl route, on a parsed URL.
UnfurlIsHttpUrl(u) == u.protocol = "http:" \/ u.protocol = "https:"

\* ureq: the POST /unfurl request in flight.
\*   pc       "idle", "guard" (unfurlUrl awaits assertSafeUrl(parsed)), "fetching"
\*            (unfurlUrl awaits fetchWithSafety(normalizedUrl)), "done"
\*   url      the submitted URL
\*   status   the HTTP status answered (0 while in flight)
\*   outcome  what the body carries: "unfurled", "fallback" (fallbackResult),
\*            "error" (an error body), "none"
\*   error    the message of the error that left the handler
\*   n        requests made so far
IdleUnfurl ==
    [pc |-> "idle", url |-> NoUrl, status |-> 0, outcome |-> "none", error |-> NULL,
     n |-> 0]

InitUnfurl == ureq = IdleUnfurl

UnfurlFrame ==
    UNCHANGED <<dbVars, linkVars, engVars, HOST_SAFETY_CACHE, dns, guardVars, rankVars>>

\* A call of assertSafeUrl (guardOnly) or of fetchWithSafety on `url` starts.
StartCall(url, guardOnly) ==
    fx' = [fx EXCEPT !.pc = "assert", !.currentUrl = url, !.i = 0, !.nreq = 0,
                     !.response = NoResponse, !.error = NULL, !.guardOnly = guardOnly]

\* POST /unfurl arrives: 400 without a url or with one that is not http(s);
\* otherwise unfurlUrl(url) starts with assertSafeUrl(parsed).
PostUnfurl(url) ==
    /\ ureq.pc \in {"idle", "done"}
    /\ ureq.n < MaxUnfurls
    /\ fx.pc \in {"idle", "returned", "thrown"}
    /\ IF url = NoUrl \/ ~UnfurlIsHttpUrl(url)
       THEN /\ ureq' = [IdleUnfurl EXCEPT !.pc = "done", !.url = url, !.status = 400,
                                          !.outcome = "error", !.n = ureq.n + 1]
            /\ UNCHANGED fx
       ELSE /\ ureq' = [IdleUnfurl EXCEPT !.pc = "guard", !.url = url,
                                          !.n = ureq.n + 1]
            /\ StartCall(url, TRUE)
    /\ UnfurlFrame

\* assertSafeUrl(parsed) of unfurlUrl is over.  It is outside unfurlUrl's try and
\* the route has none: its error leaves the handler, which the framework answers
\* with 500.  Otherwise the generic fetch starts (the URLs of the model are not
\* YouTube addresses).
UnfurlGuarded ==
    /\ ureq.pc = "guard"
    /\ fx.pc \in {"returned", "thrown"}
    /\ IF fx.pc = "thrown"
       THEN /\ ureq' = [ureq EXCEPT !.pc = "done", !.status = 500,
                                    !.outcome = "error", !.error = fx.error]
            /\ UNCHANGED fx
       ELSE /\ ureq' = [ureq EXCEPT !.pc = "fetching"]
            /\ StartCall(ureq.url, FALSE)
    /\ UnfurlFrame

\* fetchWithSafety(normalizedUrl) of the generic unfurl is over: an error is
\* caught (fallbackResult), a response that is not ok or not HTML gives
\* fallbackResult, an HTML page is read.  The route answers the result with 200.
UnfurlFetched(html) ==
    /\ ureq.pc = "fetching"
    /\ fx.pc \in {"returned", "thrown"}
    /\ LET ok == fx.response.status >= 200 /\ fx.response.status <= 299 IN
           ureq' = [ureq EXCEPT !.pc = "done", !.status = 200,
                        !.outcome = IF fx.pc = "returned" /\ ok /\ html
                                    THEN "unfurled" ELSE "fallback"]
    /\ UNCHANGED fx
    /\ UnfurlFrame

NextUnfurl ==
    \/ \E url \in UnfurlBodies : PostUnfurl(url)
    \/ UnfurlGuarded
    \/ \E html \in BOOLEAN : UnfurlFetched(html)
    \/ AssertSafeUrl
    \/ DnsLookup
    \/ \E resp \in Responses : Fetch(resp)
    \/ FetchFails
    \/ \E n \in DnsNames, answer \in DnsAnswers : DnsChange(n, answer)

(***************************************************************************)
(*          The ranking stages (feed-algorithm.ts, reranker.ts)            *)
(***************************************************************************)

\* Bounds on the candidate lists of a run: lists of every shape up to MaxShort
\* entries, and runs of up to MaxRun entries of one primary category with up to
\* MaxAffix entries before and after.
MaxShort == 4
MaxRun   == 11
MaxAffix == 1

\* The categories of an entry: none, one, and two of which the first differs.
RankCategories == {<<>>, <<"AI">>, <<"Fun", "AI">>}

ShortColumns == UNION {[1..n -> RankCategories] : n \in 0..MaxShort}
Affixes      == UNION {[1..n -> RankCategories] : n \in 0..MaxAffix}
RunColumns   ==
    {head \o [i \in 1..k |-> <<"AI">>] \o tail :
        head \in Affixes, tail \in Affixes, k \in 0..MaxRun}

\* The links a run ranks: entry i of a column of category lists has id i.
RankLinks == {[i \in 1..Len(col) |-> [id |-> <<"seed", i>>, categories |-> col[i]]] :
                 col \in ShortColumns \cup RunColumns}

\* null where a number can stand (rerankScore, servedRank).
NullNumber == 0 - 1

\* What the scoring formula makes of the links of a request (their fields, the
\* session and the preferences): every entry the same score, later entries
\* higher, or a mix with ties.  Scores are thousandths.
ScoreShapes == {"flat", "rising", "mixed"}
BaseScoreOf(shape, link) ==
    CASE shape = "flat"   -> 500
      [] shape = "rising" -> Min(SCALE, link.id[2] * 10)
      [] OTHER            -> ((link.id[2] * 7) % 4) * 240

\* A loaded reranker model: its version, and what its trees predict.
Models == {[version |-> "v1", trees |-> "flat"], [version |-> "v2", trees |-> "mixed"]}
NoModel == [version |-> NULL, trees |-> "none"]

predictWithModel(link, model) ==
    IF model.trees = "flat" THEN 3 ELSE (link.id[2] * 5) % 3

\* normalizeScores: min-max scaling to [0, 1]; 0.5 each when all are equal.
normalizeScores(scores) ==
    IF scores = <<>> THEN scores
    ELSE LET S   == {scores[i] : i \in DOMAIN scores}
             min == CHOOSE x \in S : \A y \in S : x <= y
             max == CHOOSE x \in S : \A y \in S : y <= x
             denom == max - min
         IN  IF denom = 0 THEN [i \in DOMAIN scores |-> SCALE \div 2]
             ELSE [i \in DOMAIN scores |-> ((scores[i] - min) * SCALE) \div denom]

\* A sort that keeps one entry of each score.
SortDroppingTies(list) ==
    LET keep == {i \in DOMAIN list : ~\E j \in 1..(i - 1) : list[j].score = list[i].score}
        pos  == [i \in keep |->
                    Cardinality({j \in keep : list[j].score > list[i].score}) + 1]
    IN  [k \in 1..Cardinality(keep) |-> list[CHOOSE i \in keep : pos[i] = k]]

\* list.sort((a, b) => b.score - a.score): descending and stable; an entry comes
\* after those of higher score and those of its score that were before it.
SortByScore(list) ==
    LET pos == [i \in DOMAIN list |->
                   Cardinality({j \in DOMAIN list :
                       \/ list[j].score > list[i].score
                       \/ list[j].score = list[i].score /\ j < i}) + 1]
    IN  [k \in DOMAIN list |-> list[CHOOSE i \in DOMAIN list : pos[i] = k]]

\* The candidates scoreFeedCandidates builds from the links, sorted by score.
ScoredCandidates(rankLinks, shape) ==
    SortByScore([i \in DOMAIN rankLinks |->
        [link       |-> rankLinks[i],
         score      |-> BaseScoreOf(shape, rankLinks[i]),
         baseScore  |-> BaseScoreOf(shape, rankLinks[i]),
         rerankScore |-> NullNumber]])

\* maybeApplyXGBoostReranker once loadRerankerModel has answered `model`.
ApplyReranker(candidates, model) ==
    IF model = NoModel \/ candidates = <<>>
    THEN [candidates |-> candidates, rerankerVersion |-> NULL, applied |-> FALSE]
    ELSE LET rawScores == [i \in DOMAIN candidates |->
                              predictWithModel(candidates[i].link, model)]
             normalizedScores == normalizeScores(rawScores)
             reranked == [i \in DOMAIN candidates |->
                 [candidates[i] EXCEPT
                     !.rerankScore = normalizedScores[i],
                     !.score = (candidates[i].baseScore * 35
                                + normalizedScores[i] * 65) \div 100]]
         IN  [candidates |-> SortByScore(reranked),
              rerankerVersion |-> model.version, applied |-> TRUE]

getPrimaryCategory(link) ==
    IF Len(link.categories) > 0 THEN link.categories[1] ELSE NULL

isTripleRun(primaryCat, recentPrimaryCats) ==
    /\ primaryCat # NULL
    /\ Len(recentPrimaryCats) >= 2
    /\ recentPrimaryCats[Len(recentPrimaryCats)] = primaryCat
    /\ recentPrimaryCats[Len(recentPrimaryCats) - 1] = primaryCat

\* The last index (from 0) at which the scan still skips an entry that would
\* complete a triple.
NarrowScan  == 7 - 5
LastSkipped == 7

\* The for loop of one round from index i (from 0): the first index whose entry
\* would not complete a triple or that lies beyond LastSkipped; -1 without one.
RECURSIVE ScanFrom(_, _, _)
ScanFrom(remaining, recentPrimaryCats, i) ==
    IF i >= Len(remaining) THEN 0 - 1
    ELSE IF \/ ~isTripleRun(getPrimaryCategory(remaining[i + 1].link),
                            recentPrimaryCats)
            \/ i > LastSkipped
         THEN i
         ELSE ScanFrom(remaining, recentPrimaryCats, i + 1)

PickedIndex(remaining, recentPrimaryCats) ==
    LET picked == ScanFrom(remaining, recentPrimaryCats, 0) IN
        IF picked = 0 - 1 THEN 0 ELSE picked

\* seq.splice(i, 1): seq without its entry of index i (from 0).
Splice(seq, i) == SubSeq(seq, 1, i) \o SubSeq(seq, i + 2, Len(seq))

\* One round of the while loop of applyDiversityPass.
DiversityRound(st) ==
    LET picked     == PickedIndex(st.remaining, st.recentPrimaryCats)
        item       == st.remaining[picked + 1]
        primaryCat == getPrimaryCategory(item.link)
    IN  [remaining |-> Splice(st.remaining, picked),
         result    |-> Append(st.result, item),
         recentPrimaryCats |-> IF primaryCat # NULL
                               THEN Append(st.recentPrimaryCats, primaryCat)
                               ELSE st.recentPrimaryCats,
         picked    |-> picked]

DiversityStart(rankedCandidates) ==
    [remaining |-> rankedCandidates, result |-> <<>>, recentPrimaryCats |-> <<>>,
     picked |-> 0]

RECURSIVE DiversityRounds(_)
DiversityRounds(st) ==
    IF st.remaining = <<>> THEN st.result ELSE DiversityRounds(DiversityRound(st))

applyDiversityPass(rankedCandidates) ==
    DiversityRounds(DiversityStart(rankedCandidates))

\* rk: one run of the stages on one list of links.
\*   pc       "links" (the links are at hand), "scored" (scoreFeedCandidates
\*            returned without the diversity pass), "reranked", "diversity" (in
\*            the while loop of applyDiversityPass), "done"
\*   links, shape, model, applyDiversity   the inputs of the run
\*   scored, reranked   what the sort of scoreFeedCandidates and the reranker gave
\*   pass     the state of applyDiversityPass; passInput what it was called on
InitRank ==
    \E rankLinks \in RankLinks, shape \in ScoreShapes,
       model \in Models \cup {NoModel}, applyDiversity \in BOOLEAN :
        /\ applyDiversity => model = NoModel
        /\ rk = [pc |-> "links", links |-> rankLinks, shape |-> shape,
                 model |-> model, applyDiversity |-> applyDiversity,
                 scored |-> <<>>, reranked |-> <<>>, applied |-> FALSE,
                 passInput |-> <<>>, pass |-> DiversityStart(<<>>)]

RankIdle ==
    rk = [pc |-> "idle", links |-> <<>>, shape |-> "flat", model |-> NoModel,
          applyDiversity |-> FALSE, scored |-> <<>>, reranked |-> <<>>,
          applied |-> FALSE, passInput |-> <<>>, pass |-> DiversityStart(<<>>)]

RankFrame ==
    UNCHANGED <<dbVars, linkVars, engVars, fetchVars, guardVars, unfurlVars, reranker,
                greq, rankingEvents>>

\* scoreFeedCandidates(links, session, timePrefs, options): no candidates of no
\* links; otherwise score, sort, and go through applyDiversityPass unless
\* options.applyDiversity is false.
ScoreFeedCandidates ==
    /\ rk.pc = "links"
    /\ LET scored == ScoredCandidates(rk.links, rk.shape) IN
           IF rk.links = <<>>
           THEN rk' = [rk EXCEPT !.pc = IF rk.applyDiversity THEN "done" ELSE "scored"]
           ELSE IF rk.applyDiversity
           THEN rk' = [rk EXCEPT !.pc = "diversity", !.scored = scored,
                                 !.passInput = scored,
                                 !.pass = DiversityStart(scored)]
           ELSE rk' = [rk EXCEPT !.pc = "scored", !.scored = scored]
    /\ RankFrame

\* maybeApplyXGBoostReranker(heuristicCandidates), the model being loaded or not.
MaybeApplyXGBoostReranker ==
    /\ rk.pc = "scored"
    /\ LET r == ApplyReranker(rk.scored, rk.model) IN
           rk' = [rk EXCEPT !.pc = "reranked", !.reranked = r.candidates,
                            !.applied = r.applied]
    /\ RankFrame

\* applyDiversityPass(rerankResult.candidates) is called.
ApplyDiversityPass ==
    /\ rk.pc = "reranked"
    /\ rk' = [rk EXCEPT !.pc = "diversity", !.passInput = rk.reranked,
                        !.pass = DiversityStart(rk.reranked)]
    /\ RankFrame

\* One round of its while loop.
DiversityPick ==
    /\ rk.pc = "diversity"
    /\ rk.pass.remaining # <<>>
    /\ rk' = [rk EXCEPT !.pass = DiversityRound(rk.pass)]
    /\ RankFrame

\* The loop is over: applyDiversityPass returns result.
DiversityReturn ==
    /\ rk.pc = "diversity"
    /\ rk.pass.remaining = <<>>
    /\ rk' = [rk EXCEPT !.pc = "done"]
    /\ RankFrame

NextRank ==
    \/ ScoreFeedCandidates
    \/ MaybeApplyXGBoostReranker
    \/ ApplyDiversityPass
    \/ DiversityPick
    \/ DiversityReturn

(***************************************************************************)
(*                               GET /feed                                 *)
(***************************************************************************)

FeedProcs == {"g1", "g2"}

\* GET /feed requests of one run, the size of a small and of a large library.
MaxFeeds        == 2
MaxSmallLibrary == 3
MaxLibrary      == 61

RANKING_LOG_CANDIDATE_LIMIT == 60

\* The path getModelPath() resolves to.
MODEL_PATH == "models/xgboost-reranker.json"

\* What nanoid(12) may return for feedRequestId: two requests can draw the same.
FeedRequestIds == {"f1", "f2"}

\* Number.parseInt of a parameter that is not a number.
NaN == 0 - 1000

\* The parameters of a request: what Number.parseInt made of limit and offset,
\* the category ("All" when absent) and the ids of excludeIds.
Query(parsedLimit, parsedOffset) ==
    [parsedLimit |-> parsedLimit, parsedOffset |-> parsedOffset,
     category |-> "All", excludeIds |-> {}]

SmallQueries == {Query(20, 0), Query(0, 1)}
FeedQueries  == SmallQueries \cup {Query(2, 60), Query(99, NaN), Query(NaN, 50)}

\* Requests for a category, with and without excludeIds (one id is of no entry,
\* one of bob's entry).
MaxFilterLibrary == 12
FilterQueries ==
    {[q EXCEPT !.category = category, !.excludeIds = excludeIds] :
        q \in {Query(20, 0), Query(0, 1), Query(2, 3), Query(99, NaN),
               Query(0 - 5, 0 - 2)},
        category \in {"All", "AI", "Fun", "Tech"},
        excludeIds \in {{}, {<<"seed", 1>>},
                        {<<"seed", 0>>, <<"seed", 2>>, <<"seed", 4>>, <<"seed", 99>>}}}

LimitOf(parsedLimit)   == IF parsedLimit = NaN THEN 20 ELSE Max(1, Min(parsedLimit, 50))
OffsetOf(parsedOffset) == IF parsedOffset = NaN THEN 0 ELSE Max(0, parsedOffset)

\* A library of n active entries of alice, one archived entry of hers and one
\* entry of bob.
LibraryCategories(i) ==
    IF i % 4 = 0 THEN <<"Fun", "AI">> ELSE IF i % 7 = 0 THEN <<>> ELSE <<"AI">>

Library(n) ==
    {SeedLink(<<"seed", i>>, "alice", "https://x/" \o ToString(i),
              LibraryCategories(i), 0, 0, 0) : i \in 1..n}
    \cup {SeedLink(<<"seed", 0>>, "bob", "https://x/0", <<"AI">>, 1, 0, 0),
          [SeedLink(<<"seed", n + 1>>, "alice", "https://x/archived", <<"AI">>, 1, 0, 0)
              EXCEPT !.status = "archived"]}

\* db.select().from(links).where(activeWhere): the rows in the order of their ids.
SelectActive(userId) ==
    LET hit == {row \in links : row.status = "active" /\ row.userId = userId} IN
        [k \in 1..Cardinality(hit) |->
            CHOOSE row \in hit :
                Cardinality({other \in hit : other.id[2] < row.id[2]}) = k - 1]

\* db.select().from(links).where(filteredWhere): activeWhere, and the category
\* = ANY(categories) unless the category is "All".
SelectFiltered(userId, category) ==
    LET active == SelectActive(userId)
        Matches(row) ==
            category = "All" \/ \E i \in DOMAIN row.categories : row.categories[i] = category
    IN  SelectSeq(active, Matches)

\* The filter that lets the entries of excludeIds through.
KeepExcluded(filteredLinks, excludeIds) == filteredLinks

\* candidateLinks: filteredLinks without the entries of excludeIds.
CandidateLinks(filteredLinks, excludeIds) ==
    LET Kept(row) == row.id \notin excludeIds IN SelectSeq(filteredLinks, Kept)

\* list.slice(start, end)
Slice(list, start, end) ==
    IF start >= Len(list) THEN <<>> ELSE SubSeq(list, start + 1, Min(end, Len(list)))

\* servedRankByLinkId.get(id) ?? null
ServedRankOf(selectedCandidates, id) ==
    LET at == {j \in DOMAIN selectedCandidates : selectedCandidates[j].link.id = id} IN
        IF at = {} THEN NullNumber ELSE CHOOSE j \in at : \A k \in at : k <= j

\* The candidates GET /feed logs: the head of the final list.
LoosePrefix(finalCandidates, limit) ==
    Slice(finalCandidates, 0, Min(Len(finalCandidates), limit * 3))
LogCandidates(finalCandidates, limit) ==
    Slice(finalCandidates, 0,
          Min(Len(finalCandidates), Max(limit * 3, RANKING_LOG_CANDIDATE_LIMIT)))

\* The rows GET /feed hands to the insert (the row ids, nanoid(16), are fresh).
RankingRows(userId, feedRequestId, rerankerVersion, logCandidates, selectedCandidates) ==
    [index \in DOMAIN logCandidates |->
        [userId          |-> userId,
         feedRequestId   |-> feedRequestId,
         linkId          |-> logCandidates[index].link.id,
         rerankerVersion |-> rerankerVersion,
         candidateRank   |-> index,
         servedRank      |-> ServedRankOf(selectedCandidates, logCandidates[index].link.id),
         baseScore       |-> logCandidates[index].baseScore,
         rerankScore     |-> logCandidates[index].rerankScore,
         finalScore      |-> logCandidates[index].score]]

\* greq[p]: a GET /feed request.
\*   pc       "idle", "select" (the selects from links), "score" (the select
\*            from time_preferences), "loading" (loadRerankerModel awaits
\*            readFile), "loaded" (loadRerankerModel answered), "log" (the insert
\*            into ranking_events), "done"
\*   model    what loadRerankerModel answered
\*   final    finalCandidates; served: the ids of responseLinks
\*   rows     the rows handed to the insert; logOutcome: "none", "inserted",
\*            "conflict" (rows skipped by onConflictDoNothing), "error"
\*   status, links   the response
IdleFeed ==
    [pc |-> "idle", userId |-> "", query |-> Query(0, 0), limit |-> 0, offset |-> 0,
     filtered |-> <<>>,
     heuristic |-> <<>>, model |-> NoModel, applied |-> FALSE,
     rerankerVersion |-> NULL, final |-> <<>>, served |-> <<>>,
     feedRequestId |-> "", rows |-> <<>>, logOutcome |-> "none", status |-> 0,
     links |-> <<>>, n |-> 0]

FeedIdle ==
    /\ reranker = [enabled |-> FALSE, file |-> NoModel, cachedModelPath |-> "",
                   cachedModel |-> NoModel, loadAttempted |-> FALSE]
    /\ greq = [p \in FeedProcs |-> IdleFeed]
    /\ rankingEvents = {}

\* The module state of reranker.ts when the process starts, under an environment
\* that enables the reranker or not, with a model file that is valid or not.
InitReranker ==
    \E enabled \in BOOLEAN, file \in Models \cup {NoModel} :
        /\ ~enabled => file = NoModel
        /\ reranker = [enabled |-> enabled, file |-> file, cachedModelPath |-> "",
                       cachedModel |-> NoModel, loadAttempted |-> FALSE]

FeedFrame ==
    UNCHANGED <<dbVars, linkVars, engVars, fetchVars, guardVars, unfurlVars, rk>>

FeedsStarted == greq["g1"].n + greq["g2"].n

\* GET /feed?limit=..&offset=.. arrives.
FeedArrive(p, userId, query) ==
    /\ greq[p].pc \in {"idle", "done"}
    /\ FeedsStarted < MaxFeeds
    /\ greq' = [greq EXCEPT ![p] =
           [IdleFeed EXCEPT !.pc = "select", !.userId = userId,
                            !.query = query,
                            !.limit = LimitOf(query.parsedLimit),
                            !.offset = OffsetOf(query.parsedOffset),
                            !.n = greq[p].n + 1]]
    /\ UNCHANGED <<reranker, rankingEvents>>
    /\ FeedFrame

\* The selects from links are answered; candidateLinks.
FeedSelect(p) ==
    /\ greq[p].pc = "select"
    /\ greq' = [greq EXCEPT ![p].pc = "score",
                            ![p].filtered =
                                CandidateLinks(
                                    SelectFiltered(greq[p].userId,
                                                   greq[p].query.category),
                                    greq[p].query.excludeIds)]
    /\ UNCHANGED <<reranker, rankingEvents>>
    /\ FeedFrame

\* The select from time_preferences is answered; scoreFeedCandidates, then
\* maybeApplyXGBoostReranker calls loadRerankerModel, which answers at once
\* (disabled, or a load of this path was attempted) or starts reading the file.
FeedScore(p, shape) ==
    /\ greq[p].pc = "score"
    /\ LET heuristic == ScoredCandidates(greq[p].filtered, shape) IN
           IF ~reranker.enabled
           THEN /\ greq' = [greq EXCEPT ![p].pc = "loaded", ![p].heuristic = heuristic,
                                        ![p].model = NoModel]
                /\ UNCHANGED reranker
           ELSE IF reranker.loadAttempted /\ reranker.cachedModelPath = MODEL_PATH
           THEN /\ greq' = [greq EXCEPT ![p].pc = "loaded", ![p].heuristic = heuristic,
                                        ![p].model = reranker.cachedModel]
                /\ UNCHANGED reranker
           ELSE /\ greq' = [greq EXCEPT ![p].pc = "loading", ![p].heuristic = heuristic]
                /\ reranker' = [reranker EXCEPT !.loadAttempted = TRUE,
                                                !.cachedModelPath = MODEL_PATH]
    /\ UNCHANGED rankingEvents
    /\ FeedFrame

\* readFile is over: a valid model is cached and answered, anything else
\* (an unreadable file, bad JSON, another modelType) caches and answers null.
FeedLoadDone(p) ==
    /\ greq[p].pc = "loading"
    /\ reranker' = [reranker EXCEPT !.cachedModel = reranker.file]
    /\ greq' = [greq EXCEPT ![p].pc = "loaded", ![p].model = reranker.file]
    /\ UNCHANGED rankingEvents
    /\ FeedFrame

\* The rest of maybeApplyXGBoostReranker, applyDiversityPass, the slices and
\* the rows to log; without candidates to log the response follows at once.
FeedRank(p, feedRequestId) ==
    /\ greq[p].pc = "loaded"
    /\ \E rerankResult \in {ApplyReranker(greq[p].heuristic, greq[p].model)} :
       \E finalCandidates \in {applyDiversityPass(rerankResult.candidates)} :
       \E selectedCandidates \in
              {Slice(finalCandidates, greq[p].offset, greq[p].offset + greq[p].limit)} :
       \E logCandidates \in {LogCandidates(finalCandidates, greq[p].limit)} :
           LET q == greq[p]
               served == [j \in DOMAIN selectedCandidates |->
                             selectedCandidates[j].link.id]
               ranked == [q EXCEPT !.applied = rerankResult.applied,
                                   !.rerankerVersion = rerankResult.rerankerVersion,
                                   !.final = finalCandidates, !.served = served,
                                   !.feedRequestId = feedRequestId,
                                   !.rows = RankingRows(q.userId, feedRequestId,
                                                rerankResult.rerankerVersion,
                                                logCandidates, selectedCandidates)]
           IN  IF logCandidates = <<>>
               THEN greq' = [greq EXCEPT ![p] = [ranked EXCEPT !.pc = "done",
                                                     !.status = 200, !.links = served]]
               ELSE greq' = [greq EXCEPT ![p] = [ranked EXCEPT !.pc = "log"]]
    /\ UNCHANGED <<reranker, rankingEvents>>
    /\ FeedFrame

\* A feed handler that lets the error of the insert leave it.
FeedLogPropagating(p, ok) ==
    /\ greq[p].pc = "log"
    /\ LET q == greq[p]
           rows == {q.rows[k] : k \in DOMAIN q.rows}
       IN  IF ok
           THEN /\ rankingEvents' = rankingEvents \cup rows
                /\ greq' = [greq EXCEPT ![p].pc = "done", ![p].status = 200,
                                ![p].links = q.served, ![p].logOutcome = "inserted"]
           ELSE /\ UNCHANGED rankingEvents
                /\ greq' = [greq EXCEPT ![p].pc = "done", ![p].status = 500,
                                        ![p].logOutcome = "error"]
    /\ UNCHANGED reranker
    /\ FeedFrame

\* insert(rankingEvents).values(rows).onConflictDoNothing() in its try: the rows
\* without a row of their (feedRequestId, linkId) are inserted, or the statement
\* fails and the error is dropped; then the response.
FeedLog(p, ok) ==
    /\ greq[p].pc = "log"
    /\ LET q == greq[p]
           rows == {q.rows[k] : k \in DOMAIN q.rows}
           fresh == {row \in rows :
                        ~\E old \in rankingEvents :
                            /\ old.feedRequestId = row.feedRequestId
                            /\ old.linkId = row.linkId}
       IN  /\ rankingEvents' = IF ok THEN rankingEvents \cup fresh ELSE rankingEvents
           /\ greq' = [greq EXCEPT ![p].pc = "done", ![p].status = 200,
                           ![p].links = q.served,
                           ![p].logOutcome = IF ~ok THEN "error"
                                             ELSE IF fresh = rows THEN "inserted"
                                             ELSE "conflict"]
    /\ UNCHANGED reranker
    /\ FeedFrame

\* Requests of alice that overlap, on a small library.
NextFeed ==
    \/ \E p \in FeedProcs, query \in SmallQueries : FeedArrive(p, "alice", query)
    \/ \E p \in FeedProcs : FeedSelect(p)
    \/ \E p \in FeedProcs : FeedScore(p, "mixed")
    \/ \E p \in FeedProcs : FeedLoadDone(p)
    \/ \E p \in FeedProcs, feedRequestId \in FeedRequestIds : FeedRank(p, feedRequestId)
    \/ \E p \in FeedProcs, ok \in BOOLEAN : FeedLog(p, ok)

\* The first request of alice to a fresh process, on a large library.
NextFeedLog ==
    \/ \E query \in FeedQueries :
          greq["g1"].n = 0 /\ FeedArrive("g1", "alice", query)
    \/ FeedSelect("g1")
    \/ \E shape \in ScoreShapes : FeedScore("g1", shape)
    \/ FeedLoadDone("g1")
    \/ \E feedRequestId \in FeedRequestIds : FeedRank("g1", feedRequestId)
    \/ \E ok \in BOOLEAN : FeedLog("g1", ok)

\* The first request of alice to a fresh process, for a category and with
\* excludeIds.
NextFeedFilter ==
    \/ \E query \in FilterQueries :
          greq["g1"].n = 0 /\ FeedArrive("g1", "alice", query)
    \/ FeedSelect("g1")
    \/ \E shape \in ScoreShapes : FeedScore("g1", shape)
    \/ FeedLoadDone("g1")
    \/ \E feedRequestId \in FeedRequestIds : FeedRank("g1", feedRequestId)
    \/ \E ok \in BOOLEAN : FeedLog("g1", ok)

(***************************************************************************)
(*            The scoring formula (feed-algorithm.ts): the weights         *)
(***************************************************************************)

\* Weights are in ten-thousandths (weights.session * 0.6 is then exact).
WeightUnit == SCALE * 10
Pct(n) == n * (WeightUnit \div 100)

\* The cardsShown values of a run: 0, the middle range, and beyond 24.
MaxCardsShown == 26

BASE_WEIGHTS ==
    [engagement |-> Pct(30), semantic |-> Pct(25), session |-> Pct(20),
     timePref |-> Pct(10), freshness |-> Pct(10), exploration |-> Pct(5)]

WeightSum(weights) ==
    weights.engagement + weights.semantic + weights.session +
    weights.timePref + weights.freshness + weights.exploration

normalizeWeights(weights) ==
    LET sum == WeightSum(weights) IN
        IF sum <= 0 THEN BASE_WEIGHTS
        ELSE [k \in DOMAIN weights |-> (weights[k] * WeightUnit) \div sum]

\* The three adjustments of deriveWeights, in the order of the code.
WithoutSemantic(weights) ==
    [weights EXCEPT !.engagement = @ + Pct(11), !.session = @ + Pct(8),
                    !.exploration = @ + Pct(6), !.semantic = 0]

WithoutTimePrefs(weights) ==
    [weights EXCEPT !.engagement = @ + Pct(5), !.freshness = @ + Pct(5),
                    !.timePref = 0]

BySessionLength(weights, cardsShown) ==
    IF cardsShown = 0
    THEN [weights EXCEPT !.freshness = @ + (weights.session * 6) \div 10,
                         !.exploration = @ + (weights.session * 4) \div 10,
                         !.session = 0]
    ELSE IF cardsShown > 24
    THEN LET shift == (weights.exploration * 5) \div 10 IN
             [weights EXCEPT !.exploration = @ - shift,
                             !.engagement = @ + (shift * 6) \div 10,
                             !.session = @ + (shift * 4) \div 10]
    ELSE weights

\* deriveWeights that moves the semantic weight to the others and keeps it too.
deriveWeightsKeepingSemantic(options) ==
    LET w1 == IF ~options.hasSemantic
              THEN [WithoutSemantic(BASE_WEIGHTS) EXCEPT
                       !.semantic = BASE_WEIGHTS.semantic]
              ELSE BASE_WEIGHTS
        w2 == IF ~options.hasTimePrefs THEN WithoutTimePrefs(w1) ELSE w1
    IN  normalizeWeights(BySessionLength(w2, options.cardsShown))

deriveWeights(options) ==
    LET w1 == IF ~options.hasSemantic
              THEN WithoutSemantic(BASE_WEIGHTS) ELSE BASE_WEIGHTS
        w2 == IF ~options.hasTimePrefs THEN WithoutTimePrefs(w1) ELSE w1
    IN  normalizeWeights(BySessionLength(w2, options.cardsShown))

\* A call of deriveWeights: rk holds its argument, then its result.
InitWeights ==
    \E hasSemantic \in BOOLEAN, hasTimePrefs \in BOOLEAN,
       cardsShown \in 0..MaxCardsShown :
        rk = [pc |-> "options",
              options |-> [hasSemantic |-> hasSemantic,
                           hasTimePrefs |-> hasTimePrefs,
                           cardsShown |-> cardsShown],
              weights |-> BASE_WEIGHTS]

DeriveWeights ==
    /\ rk.pc = "options"
    /\ rk' = [rk EXCEPT !.pc = "weights", !.weights = deriveWeights(rk.options)]
    /\ RankFrame

NextWeights == DeriveWeights

(***************************************************************************)
(*            The scoring formula (feed-algorithm.ts): the scores          *)
(***************************************************************************)

\* Scores and the constants of the formula are thousandths; Times(x, c) is x * c.
Times(x, c) == (x * c) \div SCALE
clamp01(value) == Max(0, Min(SCALE, value))

SESSION_SIGNAL_RECENCY_DECAY == 920
UCB_EXPLORATION_COEFFICIENT == 280

SumSeq(ns) ==
    LET F[i \in 0..Len(ns)] == IF i = 0 THEN 0 ELSE F[i - 1] + ns[i]
    IN  F[Len(ns)]

MaxOf(S) == CHOOSE x \in S : \A y \in S : y <= x

\* Math.sqrt on thousandths (rounded down), Math.log on the integers 1..10 and
\* Math.exp(-days / 30) on the ages of a run.
Isqrt(n) == CHOOSE r \in 0..(4 * SCALE) : r * r <= n /\ (r + 1) * (r + 1) > n
Sqrt(x) == Isqrt(x * SCALE)
LogTable == <<0, 693, 1099, 1386, 1609, 1792, 1946, 2079, 2197, 2303>>
Log(n) == LogTable[n]
ExpOfDays(days) == IF days = 0 THEN SCALE ELSE IF days = 30 THEN 368 ELSE 0

\* The shownCount of a shown entry of a run.
MaxScoreShown == 2

\* Dates are the whole days they lie back; null is NullNumber.
daysSince(date) == IF date = NullNumber THEN 999 ELSE date

\* cosineSimilarity (lib/ai.ts) on the embeddings of a run: unit vectors.
Embeddings == {"x", "y", "-x"}
cosineSimilarity(a, b) ==
    IF a = b THEN SCALE
    ELSE IF {a, b} = {"x", "-x"} THEN 0 - SCALE
    ELSE 0

\* Math.pow(SESSION_SIGNAL_RECENCY_DECAY, distanceFromTail)
RECURSIVE DecayPow(_)
DecayPow(distanceFromTail) ==
    IF distanceFromTail = 0 THEN SCALE
    ELSE Times(DecayPow(distanceFromTail - 1), SESSION_SIGNAL_RECENCY_DECAY)

\* buildWeightedCategoryMap(categories).get(category) || 0
CategoryWeight(categories, category) ==
    SumSeq([i \in DOMAIN categories |->
               IF categories[i] = category
               THEN DecayPow(Len(categories) - i) ELSE 0])

CategorySet(categories) == {categories[i] : i \in DOMAIN categories}

\* buildDatasetStats(links)
ShownOf(link) == Max(0, link.shownCount)
WeightedEngagement(link) == clamp01(link.engagementScore) * ShownOf(link)

TotalShown(scoreLinks) ==
    SumSeq([i \in DOMAIN scoreLinks |-> ShownOf(scoreLinks[i])])

GlobalEngagementMean(scoreLinks) ==
    IF TotalShown(scoreLinks) > 0
    THEN SumSeq([i \in DOMAIN scoreLinks |-> WeightedEngagement(scoreLinks[i])])
             \div TotalShown(scoreLinks)
    ELSE SCALE \div 2

\* stats.contentTypeMeans.get(contentType) ?? stats.globalEngagementMean
ContentTypeMean(scoreLinks, contentType) ==
    LET shown == SumSeq([i \in DOMAIN scoreLinks |->
                     IF scoreLinks[i].contentType = contentType
                     THEN ShownOf(scoreLinks[i]) ELSE 0])
        weightedSum == SumSeq([i \in DOMAIN scoreLinks |->
                     IF scoreLinks[i].contentType = contentType
                     THEN WeightedEngagement(scoreLinks[i]) ELSE 0])
    IN  IF shown > 0 THEN weightedSum \div shown
        ELSE GlobalEngagementMean(scoreLinks)

\* stats.categoryBandits.get(category): [shown, engagementSum]
CategoryBandit(scoreLinks, category) ==
    LET has(i) == category \in CategorySet(scoreLinks[i].categories) IN
        [shown |-> SumSeq([i \in DOMAIN scoreLinks |->
                       IF has(i) THEN ShownOf(scoreLinks[i]) ELSE 0]),
         engagementSum |-> SumSeq([i \in DOMAIN scoreLinks |->
                       IF has(i) THEN WeightedEngagement(scoreLinks[i]) ELSE 0])]

\* buildTimePreferenceMap(timePrefs): the categories it has, and their scores.
UsablePrefs(timePrefs) ==
    {i \in DOMAIN timePrefs :
        timePrefs[i].sampleCount >= 3 /\ timePrefs[i].avgEngagement > 0}

PreferenceCategories(timePrefs) ==
    {timePrefs[i].category : i \in UsablePrefs(timePrefs)}

PreferenceScore(timePrefs, category) ==
    MaxOf({timePrefs[i].avgEngagement :
              i \in {j \in UsablePrefs(timePrefs) : timePrefs[j].category = category}})

engagementPredictScore(link, scoreLinks) ==
    LET shown == ShownOf(link)
        typeMean == ContentTypeMean(scoreLinks, link.contentType)
        likedBoost == IF link.likedAt THEN 80 ELSE 0
        coldStart == 580 + Times(typeMean - 500, 200)
        recencySignal == IF link.lastShownAt # NullNumber
                         THEN ExpOfDays(daysSince(link.lastShownAt)) ELSE 550
        openRate == Min(SCALE, (link.openCount * SCALE) \div Max(1, shown))
        openSignal == Times(openRate, 200)
        baseline == IF link.engagementScore > 0
                    THEN Times(link.engagementScore, 720) + Times(typeMean, 280)
                    ELSE Times(typeMean, 900)
        overShownPenalty == Min(220, Max(0, shown - 10) * 15)
    IN  IF shown = 0 THEN clamp01(coldStart + likedBoost)
        ELSE clamp01(Times(baseline, 670) + Times(recencySignal, 230) +
                     openSignal + likedBoost - overShownPenalty)

semanticMatchScore(link, engagedEmbeddings) ==
    IF link.embedding = NULL \/ engagedEmbeddings = <<>> THEN SCALE \div 2
    ELSE LET sims == [i \in DOMAIN engagedEmbeddings |->
                         clamp01((cosineSimilarity(link.embedding,
                                      engagedEmbeddings[i]) + SCALE) \div 2)]
             maxSim == MaxOf({sims[i] : i \in DOMAIN sims} \cup {0})
             avgSim == SumSeq(sims) \div Len(sims)
         IN  clamp01(Times(maxSim, 650) + Times(avgSim, 350))

\* sessionContextScore: the fatigue term that is to hold back a lane the session
\* stayed in is min(0.2, fatigue * 0.04).
sessionContextScore(link, session) ==
    LET linkCats == link.categories
        engagedWeight(i) == CategoryWeight(session.engagedCategories, linkCats[i])
        skippedWeight(i) == CategoryWeight(session.skippedCategories, linkCats[i])
        momentum == SumSeq([i \in DOMAIN linkCats |-> engagedWeight(i)])
        skip     == SumSeq([i \in DOMAIN linkCats |-> skippedWeight(i)])
        fatigue  == SumSeq([i \in DOMAIN linkCats |->
                               Max(0, engagedWeight(i) - 2 * SCALE)])
        sameLaneBoost ==
            IF CategorySet(linkCats) \cap CategorySet(session.engagedCategories) # {}
            THEN 40 ELSE 0
    IN  IF session.cardsShown = 0 \/ linkCats = <<>> THEN SCALE \div 2
        ELSE clamp01(500 + Min(320, Times(momentum, 70)) - Min(340, Times(skip, 100))
                         - Min(200, Times(fatigue, 40)) + sameLaneBoost)

timePreferenceScore(link, timePrefs) ==
    LET known == CategorySet(link.categories) \cap PreferenceCategories(timePrefs)
        bestScore == MaxOf({PreferenceScore(timePrefs, c) : c \in known} \cup {0})
    IN  IF PreferenceCategories(timePrefs) = {} \/ link.categories = <<>>
        THEN SCALE \div 2
        ELSE IF bestScore = 0 THEN SCALE \div 2 ELSE clamp01(bestScore)

freshnessScore(link) ==
    LET days == daysSince(link.addedAt)
        ageScore == IF days < 1 THEN 720
                    ELSE IF days < 14 THEN 560
                    ELSE IF days <= 56 THEN 880
                    ELSE IF days <= 120 THEN 420
                    ELSE 250
        showPenalty == Min(350, Max(0, link.shownCount) * 28)
        likedBoost == IF link.likedAt THEN 80 ELSE 0
    IN  clamp01(ageScore - showPenalty + likedBoost)

getCategoryPrior(categories, scoreLinks) ==
    LET means == {CategoryBandit(scoreLinks, c).engagementSum
                      \div CategoryBandit(scoreLinks, c).shown :
                  c \in {x \in CategorySet(categories) :
                            CategoryBandit(scoreLinks, x).shown > 0}}
    IN  IF categories = <<>> THEN GlobalEngagementMean(scoreLinks)
        ELSE clamp01(MaxOf(means \cup {GlobalEngagementMean(scoreLinks)}))

explorationScore(link, scoreLinks, session) ==
    LET shown == ShownOf(link)
        linkCats == link.categories
        meanEstimate == IF shown > 0 THEN clamp01(link.engagementScore)
                        ELSE clamp01(getCategoryPrior(linkCats, scoreLinks))
        uncertainty == Sqrt(Log(TotalShown(scoreLinks) + 2) \div (shown + 1))
        categoryNovelty ==
            MaxOf({(SCALE * SCALE) \div
                       Sqrt((CategoryBandit(scoreLinks, c).shown + 1) * SCALE) :
                   c \in CategorySet(linkCats)} \cup {0})
        unseenInSession ==
            /\ linkCats # <<>>
            /\ CategorySet(linkCats) \cap
                   (CategorySet(session.engagedCategories) \cup
                    CategorySet(session.skippedCategories)) = {}
        sessionNovelty == IF unseenInSession THEN 80 ELSE 0
    IN  clamp01(meanEstimate + Times(UCB_EXPLORATION_COEFFICIENT, uncertainty) +
                Times(140, categoryNovelty) + sessionNovelty)

\* The breakdown and the baseScore of one link.
Breakdown(link, scoreLinks, session, timePrefs) ==
    [engagement  |-> engagementPredictScore(link, scoreLinks),
     semantic    |-> semanticMatchScore(link, session.engagedEmbeddings),
     session     |-> sessionContextScore(link, session),
     timePref    |-> timePreferenceScore(link, timePrefs),
     freshness   |-> freshnessScore(link),
     exploration |-> explorationScore(link, scoreLinks, session)]

WeightsOf(session, timePrefs) ==
    deriveWeights([hasSemantic  |-> session.engagedEmbeddings # <<>>,
                   hasTimePrefs |-> PreferenceCategories(timePrefs) # {},
                   cardsShown   |-> session.cardsShown])

baseScore(breakdown, weights) ==
    (breakdown.engagement * weights.engagement +
     breakdown.semantic * weights.semantic +
     breakdown.session * weights.session +
     breakdown.timePref * weights.timePref +
     breakdown.freshness * weights.freshness +
     breakdown.exploration * weights.exploration) \div WeightUnit

\* scoreFeedCandidates(links, session, timePrefs, {applyDiversity: false})
scoreFeedCandidates(scoreLinks, session, timePrefs) ==
    SortByScore([i \in DOMAIN scoreLinks |->
        LET breakdown == Breakdown(scoreLinks[i], scoreLinks, session, timePrefs)
            score == baseScore(breakdown, WeightsOf(session, timePrefs))
        IN  [link |-> scoreLinks[i], score |-> score, baseScore |-> score,
             rerankScore |-> NullNumber, breakdown |-> breakdown]])

\* Two entries alike in every field but the category, "AI" and "Tech".
ScoreLink(id, categories, fields) ==
    [id |-> <<"seed", id>>, categories |-> categories, contentType |-> "article",
     shownCount |-> fields.shownCount, openCount |-> fields.openCount,
     engagementScore |-> fields.engagementScore, likedAt |-> fields.likedAt,
     lastShownAt |-> fields.lastShownAt, addedAt |-> fields.addedAt,
     embedding |-> fields.embedding]

LinkFields ==
    {f \in [shownCount : {0, MaxScoreShown}, openCount : {0, 1},
            engagementScore : {0, 600}, likedAt : BOOLEAN,
            lastShownAt : {NullNumber, 0, 30}, addedAt : {0, 20, 200},
            embedding : {NULL, "x"}] :
        f.shownCount = 0 =>
            f.openCount = 0 /\ f.engagementScore = 0 /\ f.lastShownAt = NullNumber}

\* The sessions of a run: none, and six engagements in a row with "AI".
Sessions ==
    [engagedCategories : {<<>>, [i \in 1..6 |-> "AI"]},
     skippedCategories : {<<>>, <<"Fun">>},
     engagedEmbeddings : {<<>>, <<"x", "y">>},
     cardsShown : {0, 6, MaxCardsShown}]

TimePrefs ==
    {<<>>,
     <<[category |-> "AI", avgEngagement |-> 700, sampleCount |-> 2]>>,
     <<[category |-> "Fun", avgEngagement |-> 700, sampleCount |-> 3]>>}

InitScore ==
    \E fields \in LinkFields, session \in Sessions, timePrefs \in TimePrefs :
        rk = [pc |-> "links",
              links |-> <<ScoreLink(1, <<"AI">>, fields),
                          ScoreLink(2, <<"Tech">>, fields)>>,
              session |-> session, timePrefs |-> timePrefs, scored |-> <<>>]

ScoreLinks ==
    /\ rk.pc = "links"
    /\ rk' = [rk EXCEPT !.pc = "scored",
                 !.scored = scoreFeedCandidates(rk.links, rk.session, rk.timePrefs)]
    /\ RankFrame

NextScore == ScoreLinks

(***************************************************************************)
(*                     evaluateTree (reranker.ts)                          *)
(***************************************************************************)

\* The bound of the while loop, and a bound one higher.
LooseGuardLimit == 2048 + 1
GuardLimit == 2048

\* A node of a tree: a leaf, or a test of a feature with the indices (from 0) of
\* the nodes to go on with.
Leaf(value) ==
    [isLeaf |-> TRUE, leaf |-> value, left |-> 0, right |-> 0, feature |-> 0,
     threshold |-> 0, defaultLeft |-> FALSE]
Split(left, right, defaultLeft) ==
    [isLeaf |-> FALSE, leaf |-> 0, left |-> left, right |-> right, feature |-> 0,
     threshold |-> 500, defaultLeft |-> defaultLeft]

\* A path of `inner` tests, each leading to the next node, and a leaf at its end.
Chain(inner) ==
    [i \in 1..(inner + 1) |-> IF i <= inner THEN Split(i, i, FALSE) ELSE Leaf(9)]

\* The trees of the model: none, a leaf, a proper tree, trees whose indices form a
\* cycle, are negative or point outside the nodes, and paths of GuardLimit - 1
\* and of GuardLimit tests.
Trees ==
    <<<<>>,
     <<Leaf(7)>>,
     <<Split(1, 2, TRUE), Leaf(3), Leaf(5)>>,
     <<Split(1, 2, FALSE), Leaf(3), Split(1, 0, FALSE)>>,
     <<Split(0, 1, TRUE), Leaf(3)>>,
     <<Split(1, 1, FALSE), Split(0, 0, FALSE)>>,
     <<Split(0 - 1, 1, FALSE), Leaf(3)>>,
     <<Split(1, 5, TRUE), Leaf(3)>>,
     Chain(GuardLimit - 1),
     Chain(GuardLimit)>>

\* Feature vectors: a value below the threshold, one above, NaN, and no value.
FeatureVectors == {<<100>>, <<900>>, <<NaN>>, <<>>}

\* featureVector[node.feature] ?? 0
FeatureValue(featureVector, node) ==
    IF node.feature + 1 \in DOMAIN featureVector
    THEN featureVector[node.feature + 1] ELSE 0

\* The index the walk goes on with from a test.
NextIndex(node, featureVector) ==
    LET featureValue == FeatureValue(featureVector, node) IN
        IF featureValue = NaN
        THEN IF node.defaultLeft THEN node.left ELSE node.right
        ELSE IF featureValue < node.threshold THEN node.left ELSE node.right

\* A call of evaluateTree: rk holds the arguments (the tree by its place in
\* Trees), nodeIndex and guard, and the value returned.
InitTree ==
    \E tree \in DOMAIN Trees, featureVector \in FeatureVectors :
        rk = [pc |-> "called", tree |-> tree, featureVector |-> featureVector,
              nodeIndex |-> 0, guard |-> 0, result |-> 0]

Return(value) == rk' = [rk EXCEPT !.pc = "returned", !.result = value]

\* if (!tree.nodes.length) return 0
EvaluateTree ==
    /\ rk.pc = "called"
    /\ IF Trees[rk.tree] = <<>> THEN Return(0) ELSE rk' = [rk EXCEPT !.pc = "while"]
    /\ RankFrame

\* The loop: its test, and one round of its body.
EvaluateTreeRound ==
    /\ rk.pc = "while"
    /\ IF rk.guard >= GuardLimit THEN Return(0)
       ELSE IF rk.nodeIndex + 1 \notin DOMAIN Trees[rk.tree]
       THEN rk' = [rk EXCEPT !.pc = "returned", !.result = 0, !.guard = @ + 1]
       ELSE LET node == Trees[rk.tree][rk.nodeIndex + 1]
                nodeIndex == NextIndex(node, rk.featureVector)
            IN  IF node.isLeaf
                THEN rk' = [rk EXCEPT !.pc = "returned", !.result = node.leaf,
                                      !.guard = @ + 1]
                ELSE IF nodeIndex < 0
                THEN rk' = [rk EXCEPT !.pc = "returned", !.result = 0,
                                      !.guard = @ + 1, !.nodeIndex = nodeIndex]
                ELSE rk' = [rk EXCEPT !.guard = @ + 1, !.nodeIndex = nodeIndex]
    /\ RankFrame

NextTree == EvaluateTree \/ EvaluateTreeRound

(***************************************************************************)
(*                           Specifications                                *)
(***************************************************************************)

\* The fetcher at rest, for the runs that do not call it.
FetchIdle ==
    /\ GuardsIdle
    /\ HOST_SAFETY_CACHE = [h \in Hosts |-> "absent"]
    /\ dns = [n \in DnsNames |-> {PubA}]
    /\ fx = [pc |-> "idle", currentUrl |-> NoUrl, i |-> 0, nreq |-> 0, fetched |-> {},
             response |-> NoResponse, error |-> NULL, calls |-> 0, changes |-> 0,
             guardOnly |-> FALSE]

\* Adding entries: POST /links, POST /upload, PUT /upload, on an empty store.
InitLinks ==
    /\ links = {}
    /\ engagements = {}
    /\ timePreferences = {}
    /\ InitLinkReqs
    /\ InitEng
    /\ InitUnfurl
    /\ RankIdle
    /\ FeedIdle
    /\ FetchIdle

SpecLinks == InitLinks /\ [][NextLinks]_vars

\* Engagement ingestion on a seeded store: overlapping POST /engagement requests
\* (SpecEng), and one POST /engagement among PATCH, DELETE and GET /feed
\* requests (SpecCalls).
InitEngagement ==
    /\ InitStore
    /\ engagements = {}
    /\ timePreferences = {}
    /\ InitLinkReqs
    /\ InitEng
    /\ InitUnfurl
    /\ RankIdle
    /\ FeedIdle
    /\ FetchIdle

SpecEng == InitEngagement /\ [][NextEng]_vars

SpecCalls == InitEngagement /\ [][NextCalls]_vars

\* The validation of POST /engagement: one request, any body.
SpecIngest == InitEngagement /\ [][NextIngest]_vars

SpecOrder == InitEngagement /\ [][NextOrder]_vars

\* The two requests of NextEng on entries that were shown once and never opened.
InitShownOnce ==
    /\ links = {SeedLink(L1, "alice", "https://x/y", <<"AI", "Tech">>, 1, 0, 0),
                SeedLink(L2, "bob", "https://x/y", <<"AI">>, 1, 0, 0)}
    /\ engagements = {}
    /\ timePreferences = {}
    /\ InitLinkReqs
    /\ InitEng
    /\ InitUnfurl
    /\ RankIdle
    /\ FeedIdle
    /\ FetchIdle

SpecCounts == InitShownOnce /\ [][NextEng]_vars

\* The two requests of NextEng after an earlier request of alice with one dwell
\* event (10 s, slow swipe) on her entry has been served: the entry has its score,
\* and each of its categories has its row of time_preferences.
SeedPref(id, category) ==
    [id |-> id, userId |-> "alice", hourSlot |-> HourOf(0), dayType |-> DayTypeOf(0),
     category |-> category,
     avgEngagement |-> computeEngagementScore(10000, 300), sampleCount |-> 1]

InitPrefs ==
    /\ links = {SeedLink(L1, "alice", "https://x/y", <<"AI", "Tech">>, 1,
                         computeEngagementScore(10000, 300), 10000),
                SeedLink(L2, "bob", "https://x/y", <<"AI">>, 1, 0, 0)}
    /\ engagements = {}
    /\ timePreferences = {SeedPref(<<"seed", 3>>, "AI"), SeedPref(<<"seed", 4>>, "Tech")}
    /\ InitLinkReqs
    /\ InitEng
    /\ InitUnfurl
    /\ RankIdle
    /\ FeedIdle
    /\ FetchIdle

SpecPrefs == InitPrefs /\ [][NextEng]_vars

\* Requests of bob on the entries of both users, beside one request of alice.
SpecTenants == InitEngagement /\ [][NextTenants]_vars

\* The fetcher: calls of fetchWithSafety under a resolver whose answers change.
InitFetcher ==
    /\ links = {}
    /\ engagements = {}
    /\ timePreferences = {}
    /\ InitLinkReqs
    /\ InitEng
    /\ InitUnfurl
    /\ RankIdle
    /\ FeedIdle
    /\ InitFetch

SpecFetch == InitFetcher /\ [][NextFetch]_vars

\* Overlapping calls of assertPublicHostname on the cache of the process.
SpecCache == InitFetcher /\ [][NextCache]_vars

\* POST /unfurl requests, one after the other, under the same resolver.
SpecUnfurl == InitFetcher /\ [][NextUnfurl]_vars

\* The ranking stages on one candidate list.
InitRanking ==
    /\ links = {}
    /\ engagements = {}
    /\ timePreferences = {}
    /\ InitLinkReqs
    /\ InitEng
    /\ InitUnfurl
    /\ FetchIdle
    /\ FeedIdle
    /\ InitRank

SpecRank == InitRanking /\ [][NextRank]_vars

\* GET /feed requests on a library of `sizes` entries, in a fresh process.
InitFeed(sizes) ==
    /\ \E n \in sizes : links = Library(n)
    /\ engagements = {}
    /\ timePreferences = {}
    /\ InitLinkReqs
    /\ InitEng
    /\ InitUnfurl
    /\ FetchIdle
    /\ RankIdle
    /\ InitReranker
    /\ greq = [p \in FeedProcs |-> IdleFeed]
    /\ rankingEvents = {}

SpecFeed == InitFeed({0, MaxSmallLibrary}) /\ [][NextFeed]_vars

SpecFeedLog == InitFeed({MaxSmallLibrary, MaxLibrary}) /\ [][NextFeedLog]_vars

SpecFeedFilter == InitFeed({MaxFilterLibrary}) /\ [][NextFeedFilter]_vars

\* A call of a function of the ranking code: an empty store, no request in flight.
NoRequests ==
    /\ links = {}
    /\ engagements = {}
    /\ timePreferences = {}
    /\ InitLinkReqs
    /\ InitEng
    /\ InitUnfurl
    /\ FetchIdle
    /\ FeedIdle

\* scoreFeedCandidates on two entries that differ in their category.
InitScoring == NoRequests /\ InitScore
SpecScore == InitScoring /\ [][NextScore]_vars

\* evaluateTree on the trees and the vectors of Trees and FeatureVectors;
\* the call goes on while it can.
InitTreeWalk == NoRequests /\ InitTree
SpecTree == InitTreeWalk /\ [][NextTree]_vars /\ WF_vars(NextTree)

\* deriveWeights on every combination of its options.
InitDerive == NoRequests /\ InitWeights
SpecWeights == InitDerive /\ [][NextWeights]_vars

(***************************************************************************)
(*                      Properties of the fetcher                          *)
(***************************************************************************)

\* A URL that assertSafeUrl accepts: an http(s) URL without credentials whose
\* hostname the guard has decided is safe.
PassedAssertSafeUrl(u) ==
    /\ u.protocol \in {"http:", "https:"}
    /\ ~u.creds
    /\ HOST_SAFETY_CACHE[u.host] = "safe"

RequestsOnlyChecked ==
    /\ fx.pc = "fetch" => PassedAssertSafeUrl(fx.currentUrl)
    /\ \A u \in fx.fetched : PassedAssertSafeUrl(u)

\* The call reaches its fetch only out of the check of the very URL it requests.
CheckedJustBefore ==
    fx'.pc = "fetch" =>
        /\ fx.pc \in {"assert", "dns", "fetch"}
        /\ fx'.currentUrl = fx.currentUrl
        /\ fx'.nreq = fx.nreq
        /\ fx'.i = fx.i

\* C8: fetchWithSafety requests no URL that has not passed assertSafeUrl
\* (protocol, credentials, hostname) right before the request: every URL it has
\* requested or is about to request passed, and the only way to a request is the
\* check of that same URL, for the first URL and for every redirect target.
C8_ChecksBeforeEveryRequest == []RequestsOnlyChecked /\ [][CheckedJustBefore]_vars

\* C8 happens: a call followed a redirect and returned the second response.
C8_Witness == fx.pc = "returned" /\ fx.nreq >= 2

IsRedirectWithLocation(resp) ==
    resp.status \in 300..399 /\ resp.location # NoUrl

\* C9: one call of fetchWithSafety issues at most 5 requests (follows at most 4
\* redirects); it throws "Too many redirects" exactly when the 5th response is
\* again a redirect with a Location header.
C9_AtMostFourRedirects ==
    /\ fx.nreq <= 5
    /\ fx.error = "Too many redirects" =>
           fx.pc = "thrown" /\ fx.nreq = 5 /\ IsRedirectWithLocation(fx.response)
    /\ (fx.pc \in {"returned", "thrown"} /\ fx.nreq = 5
            /\ IsRedirectWithLocation(fx.response)) =>
           fx.pc = "thrown" /\ fx.error = "Too many redirects"
    /\ fx.pc = "returned" =>
           fx.nreq \in 1..5 /\ (fx.nreq < 5 => ~IsRedirectWithLocation(fx.response))

\* C9 happens: a call gave up after its fifth response.
C9_Witness == fx.error = "Too many redirects" /\ fx.nreq = 5

\* The addresses of the model that lie in a reserved range.
ReservedAddresses == {PrivA, PrivB, MetaA, LoopA}

ResolvesToReserved(h) == h.ip = <<>> /\ dns[h.name] \cap ReservedAddresses # {}

\* C10 as claimed: no check lets a hostname pass that resolves, at the time of
\* that check, to a reserved address -- on every call for the hostname.
C10_RejectsOnEveryCall ==
    [][(fx.pc \in {"assert", "dns"} /\ fx'.pc = "fetch")
          => ~ResolvesToReserved(fx.currentUrl.host)]_vars

\* C10 amended: a check that resolves the hostname (no decision is cached for it)
\* rejects it when any address it resolves to then is reserved, and records the
\* decision; a check that finds a decision cached repeats it without resolving.
C10_RejectsWhenResolved ==
    [][LET h == fx.currentUrl.host IN
         /\ (fx.pc = "dns" /\ fx'.pc # "dns" /\ ResolvesToReserved(h)) =>
                /\ fx'.pc = "thrown"
                /\ fx'.error = "Private network targets are not allowed"
                /\ HOST_SAFETY_CACHE'[h] = "unsafe"
         /\ (fx.pc = "dns" /\ fx'.pc = "fetch") =>
                HOST_SAFETY_CACHE[h] = "absent" /\ HOST_SAFETY_CACHE'[h] = "safe"
         /\ (fx.pc = "assert" /\ fx'.pc # "assert"
                /\ HOST_SAFETY_CACHE[h] = "unsafe") => fx'.pc = "thrown"
         /\ (fx.pc = "assert" /\ fx'.pc = "dns") => HOST_SAFETY_CACHE[h] = "absent"]_vars

\* C10 happens: a name with one public and one private address was resolved and
\* rejected.
C10_Witness ==
    /\ fx.pc = "thrown"
    /\ fx.error = "Private network targets are not allowed"
    /\ fx.currentUrl.host.ip = <<>>
    /\ dns[fx.currentUrl.host.name] = {PubA, PrivB}
    /\ HOST_SAFETY_CACHE[fx.currentUrl.host] = "unsafe"

(***************************************************************************)
(*                  Properties of adding entries                           *)
(***************************************************************************)

\* C1: after any interleaving of POST /links and PUT /upload requests, also of
\* two requests of one user for one URL that overlap, links holds at most one row
\* per (userId, url) with a non-null url.
C1_UniqueUserUrl ==
    \A r1 \in links, r2 \in links :
        (r1.url # NULL /\ r1.userId = r2.userId /\ r1.url = r2.url) => r1.id = r2.id

\* POST /links requests answered that ran from arrival to answer with no other
\* request in flight: one of two sequential requests.
SequentialPosts ==
    {p \in Procs : /\ lreq[p].op = "POST /links"
                   /\ lreq[p].pc = "done"
                   /\ ~lreq[p].overlapped}

RowsInsertedBy(p) == {row \in links : row.id[1] = p}

\* C2: of two sequential POST /links with the same URL, the second of the same
\* user is answered 409 with the row the first created and inserts no row; the
\* second of another user is answered 201 and inserts a new row that it owns.
C2_SequentialDuplicate ==
    \A p \in SequentialPosts :
        LET q == lreq[p]
            mine == {row \in links : row.userId = q.userId /\ row.url = q.url}
            others == {row \in links : row.userId # q.userId /\ row.url = q.url}
        IN  /\ q.dupAtStart =>
                /\ q.status = 409
                /\ q.link \in mine
                /\ q.link.id[1] # p
                /\ RowsInsertedBy(p) = {}
            /\ (~q.dupAtStart /\ others # {}) =>
                /\ q.status = 201
                /\ q.link \in mine
                /\ RowsInsertedBy(p) = {q.link}

\* C2 happens: a user posted a URL twice, one request after the other, and the
\* second was answered 409.
C2_Witness ==
    \E p \in SequentialPosts, o \in Procs :
        /\ o # p
        /\ lreq[p].dupAtStart
        /\ lreq[p].status = 409
        /\ lreq[o].op = "POST /links"
        /\ lreq[o].status = 201
        /\ lreq[o].userId = lreq[p].userId
        /\ lreq[o].url = lreq[p].url

(***************************************************************************)
(*                 Properties of engagement ingestion                      *)
(***************************************************************************)

EventRowsOf(r) == {row \in engagements : row.id[1] = r}

\* C3: POST /engagement is atomic per request: a request that failed at any
\* step has left none of its writes behind (its event rows are the first of them).
C3_AtomicPerRequest ==
    \A r \in Reqs : ereq[r].pc = "failed" => EventRowsOf(r) = {}

TheEntry == CHOOSE row \in links : row.id = L1

\* The dwell events of request r that reach alice's entry L1.
DwellsOn(r) ==
    IF ereq[r].userId = "alice"
    THEN SelectSeq(ereq[r].events,
                   LAMBDA e : e.eventType = "dwell" /\ e.dwellTimeMs > 0 /\ e.linkId = L1)
    ELSE <<>>

ImpressionsOn(r) ==
    IF ereq[r].userId = "alice"
    THEN SelectSeq(ereq[r].events,
                   LAMBDA e : e.eventType = "impression" /\ e.linkId = L1)
    ELSE <<>>

\* The running mean over n samples, of which x is the latest.
RunningMean(n, old, x) == IF n <= 1 THEN x ELSE (old * (n - 1) + x) \div n

\* The interaction scores of the dwell events of EventSamples, in thousandths:
\* 0.7 * ln(11)/ln(121) - 0 = 0.350 and max(0, 0.7 * ln(2)/ln(121) - 0.2) = 0.
ScoreOfSample(e) == IF e.dwellTimeMs = 10000 THEN 350 ELSE 0

\* <<engagementScore, avgDwellMs>> after the dwell events `seq` are applied one
\* after the other to an entry shown n times that starts at `start`.
RECURSIVE AppliedInTurn(_, _, _)
AppliedInTurn(seq, n, start) ==
    IF seq = <<>> THEN start
    ELSE AppliedInTurn(Tail(seq), n,
             <<RunningMean(n, start[1], ScoreOfSample(Head(seq))),
               RunningMean(n, start[2], Head(seq).dwellTimeMs)>>)

\* The dwell updates of request r applied so far: none before its events are
\* inserted (k = 0), then those of its events that are no longer in dwellQ.
Applied(r) ==
    LET all == DwellsOn(r)
        left == SelectSeq(ereq[r].dwellQ, LAMBDA e : e.linkId = L1)
    IN  IF ereq[r].k = 0 \/ all = <<>> THEN <<>>
        ELSE SubSeq(all, 1, Len(all) - Len(left))

\* The orders in which the updates applied so far can have been applied one
\* after the other: those of e1 in their order, that of e2 anywhere among them.
SomeOrder ==
    LET d1 == Applied("e1")
        d2 == Applied("e2")
    IN  IF d2 = <<>> THEN {d1}
        ELSE {SubSeq(d1, 1, j) \o d2 \o SubSeq(d1, j + 1, Len(d1)) : j \in 0..Len(d1)}

\* C4: when two POST /engagement requests carry dwell events for one entry and
\* overlap, the entry's engagementScore and avgDwellMs are, at every moment and at
\* the end, what the running-mean updates applied so far give when applied one
\* after the other in some order (the entry's shownCount being what it was all
\* along): no update is lost or overwritten.
C4_DwellUpdatesSerialize ==
    (/\ \A r \in Reqs : ImpressionsOn(r) = <<>>
     /\ \E row \in links : row.id = L1)
    => \E order \in SomeOrder, st \in SeedStates :
           /\ st[1] = TheEntry.shownCount
           /\ <<TheEntry.engagementScore, TheEntry.avgDwellMs>> =
                  AppliedInTurn(order, st[1], <<st[2], st[3]>>)

\* C4 happens: e1 has applied the first of its dwell updates and has more to
\* apply, and meanwhile e2, which arrived later, has applied its own.
C4_Witness ==
    /\ \A r \in Reqs : ImpressionsOn(r) = <<>>
    /\ ereq["e1"].pc = "dwell"
    /\ Len(Applied("e1")) = 1
    /\ ereq["e2"].now > ereq["e1"].now
    /\ Len(Applied("e2")) = 1
    /\ Applied("e1")[1] # Applied("e2")[1]
    /\ TheEntry.shownCount >= 2
    /\ TheEntry.engagementScore > 0

\* C7: after any interleaving of concurrent POST /engagement requests,
\* time_preferences holds at most one row per (userId, hourSlot, dayType, category).
C7_UniqueTimePreference ==
    \A r1 \in timePreferences, r2 \in timePreferences :
        (/\ r1.userId = r2.userId
         /\ r1.hourSlot = r2.hourSlot
         /\ r1.dayType = r2.dayType
         /\ r1.category = r2.category) => r1.id = r2.id

\* C7 happens: a request is about to insert the row of a category it found no
\* row for, and a concurrent request has inserted that row since.
C7_Witness ==
    \E r \in Reqs :
        /\ ereq[r].pc = "upsert"
        /\ ereq[r].prefQ # <<>>
        /\ \A row \in ereq[r].existing : row.category # Head(ereq[r].prefQ)[1]
        /\ \E row \in timePreferences :
               /\ row.userId = ereq[r].userId
               /\ row.category = Head(ereq[r].prefQ)[1]
               /\ row.id[1] # r

(***************************************************************************)
(*        Properties of shownCount and engagementScore over calls          *)
(***************************************************************************)

\* C5: for every entry, shownCount never decreases across the operations of its
\* owner (POST /engagement, PATCH /links/{id} with shownCount or incrementShown,
\* GET /feed).
C5_ShownCountNeverDecreases ==
    [][\A row \in links : \A after \in links' :
           after.id = row.id => after.shownCount >= row.shownCount]_vars

ScoreInRange == \A row \in links : row.engagementScore \in 0..1000

\* A step that applies the dwell update at the head of e1's dwellQ moves the
\* entry's engagementScore toward that event's interaction score s, never past it.
MovesTowardScore ==
    (/\ ereq["e1"].pc = "dwell"
     /\ ereq'["e1"].dwellQ = Tail(ereq["e1"].dwellQ))
    => \A row \in links : \A after \in links' :
           (after.id = row.id /\ row.id = L1) =>
               LET s == ScoreOfSample(Head(ereq["e1"].dwellQ)) IN
                   /\ after.engagementScore >= Min(row.engagementScore, s)
                   /\ after.engagementScore <= Max(row.engagementScore, s)
                   /\ row.shownCount <= 1 => after.engagementScore = s

\* C6: after any sequence of engagement ingestions and PATCH requests every
\* entry's engagementScore lies in [0,1]; each of n dwell events of one
\* interaction score s applied in turn keeps it there and moves it toward s.
C6_ScoreStaysInUnitRange == []ScoreInRange /\ [][MovesTowardScore]_vars

\* C6 happens: among PATCH requests, a batch of two or more dwell events of score
\* 0.35 has been applied to an entry shown twice or more that started at 0, and
\* its score lies between 0 and 0.35.
C6_Witness ==
    /\ ereq["e1"].pc = "done"
    /\ ereq["e1"].status = 200
    /\ Len(ereq["e1"].events) >= 2
    /\ \A j \in DOMAIN ereq["e1"].events : ereq["e1"].events[j].dwellTimeMs = 10000
    /\ lastCall.op = "PATCH"
    /\ \E row \in links :
           /\ row.id = L1
           /\ row.shownCount >= 2
           /\ row.engagementScore > 0
           /\ row.engagementScore < 350

(***************************************************************************)
(*                      Properties of POST /unfurl                         *)
(***************************************************************************)

\* The errors with which the SSRF guard rejects a URL.
GuardRejections ==
    {"Host blocked", "Private network targets are not allowed",
     "URLs with credentials are not allowed"}

\* C11: POST /unfurl answers 400 when the SSRF guard rejects the submitted URL
\* itself (a blocked hostname, a reserved-range IP literal, credentials, a
\* hostname whose DNS answer contains a private address).
C11_GuardRejectionIs400 ==
    (ureq.pc = "done" /\ ureq.error \in GuardRejections) => ureq.status = 400

\* C12: POST /unfurl answers 400 when a public URL redirects to a private target
\* (the guard rejects the redirect target during the generic fetch).
C12_PrivateRedirectIs400 ==
    (/\ ureq.pc = "done"
     /\ ureq.error = NULL
     /\ ~fx.guardOnly
     /\ fx.pc = "thrown"
     /\ fx.nreq >= 1
     /\ fx.error \in GuardRejections
     /\ fx.currentUrl # ureq.url) => ureq.status = 400


(***************************************************************************)
(*                   Properties of the ranking stages                      *)
(***************************************************************************)

\* The primary category of the k-th entry from the end of a list (k from 0).
PrimaryFromEnd(list, k) == getPrimaryCategory(list[Len(list) - k].link)

\* The last three entries of the output share one primary category.
EndsInTriple(result) ==
    /\ Len(result) >= 3
    /\ PrimaryFromEnd(result, 0) # NULL
    /\ PrimaryFromEnd(result, 1) = PrimaryFromEnd(result, 0)
    /\ PrimaryFromEnd(result, 2) = PrimaryFromEnd(result, 0)

\* Appended to the output, c would be the third of three of its primary category.
WouldCompleteTriple(c, result) == EndsInTriple(Append(result, c))

\* The candidates within the first 8 positions of the remaining list.
FirstEight(remaining) == {remaining[i] : i \in 1..Min(8, Len(remaining))}

\* A round of applyDiversityPass moved one candidate to the output.
PickStep ==
    /\ rk.pc = "diversity"
    /\ rk'.pc = "diversity"
    /\ Len(rk'.pass.result) = Len(rk.pass.result) + 1

\* C13: in the output of applyDiversityPass three consecutive entries share one
\* primary category only if, when the third was picked, every candidate within
\* the first 8 positions of the remaining list would have completed the triple.
C13_TripleOnlyWhenForced ==
    [][(PickStep /\ EndsInTriple(rk'.pass.result))
          => \A c \in FirstEight(rk.pass.remaining) :
                 WouldCompleteTriple(c, rk.pass.result)]_vars

\* C13 happens: the pass has just completed a triple and has candidates left.
C13_Witness ==
    /\ rk.pc = "diversity"
    /\ EndsInTriple(rk.pass.result)
    /\ rk.pass.remaining # <<>>

\* C14: when each of the first eight remaining candidates would complete a
\* triple, the candidate picked is the head of the remaining list, whatever the
\* length of that list.
C14_ForcedPickIsHead ==
    [][(/\ PickStep
        /\ \A c \in FirstEight(rk.pass.remaining) :
               WouldCompleteTriple(c, rk.pass.result))
          => rk'.pass.result = Append(rk.pass.result, Head(rk.pass.remaining))]_vars

\* How often x occurs in seq, and whether b holds the entries of a, each as often.
Count(seq, x) == Cardinality({i \in DOMAIN seq : seq[i] = x})
IsPermutation(a, b) ==
    /\ Len(a) = Len(b)
    /\ \A i \in DOMAIN a : Count(b, a[i]) = Count(a, a[i])

LinksOf(candidates) == [i \in DOMAIN candidates |-> candidates[i].link]

\* C15: each ranking stage returns a permutation of its input: the candidates of
\* scoreFeedCandidates (with and without its diversity pass) are the links given,
\* each once; maybeApplyXGBoostReranker returns the candidates it was given
\* (rescored when the model applies); applyDiversityPass returns exactly the
\* entries it was given; so the list the handler slices has the length and the
\* entries of the candidate list.
C15_StagesPermute ==
    /\ (rk.pc \in {"scored", "reranked", "diversity", "done"} /\ ~rk.applyDiversity)
          => IsPermutation(rk.links, LinksOf(rk.scored))
    /\ (rk.pc = "done" /\ rk.applyDiversity)
          => IsPermutation(rk.links, LinksOf(rk.pass.result))
    /\ (rk.pc \in {"reranked", "diversity", "done"} /\ ~rk.applyDiversity)
          => IsPermutation(LinksOf(rk.scored), LinksOf(rk.reranked))
    /\ rk.pc = "done" => IsPermutation(rk.passInput, rk.pass.result)
    /\ rk.pc = "done"
          => /\ Len(rk.pass.result) = Len(rk.links)
             /\ IsPermutation(rk.links, LinksOf(rk.pass.result))

\* C15 happens: the three stages ran, the model applied, and both the reranker
\* and the diversity pass changed the order of four or more candidates.
C15_Witness ==
    /\ rk.pc = "done"
    /\ rk.applied
    /\ Len(rk.links) >= 4
    /\ LinksOf(rk.reranked) # LinksOf(rk.scored)
    /\ rk.pass.result # rk.reranked

(***************************************************************************)
(*              GET /feed among the writers of shownCount                  *)
(***************************************************************************)

\* The step is a GET /feed, a PATCH, the impression update of a POST /engagement.
FeedStep  == lastCall'.op = "GET /feed" /\ clock' # clock /\ ereq' = ereq
PatchStep == lastCall'.op = "PATCH" /\ clock' # clock /\ ereq' = ereq
ImpressionStep == \E r \in Reqs : ereq[r].pc = "impressions" /\ ereq'[r] # ereq[r]

\* The step changes shownCount or lastShownAt of an entry.
ShownFieldsChange ==
    \E row \in links, after \in links' :
        /\ after.id = row.id
        /\ after.shownCount # row.shownCount \/ after.lastShownAt # row.lastShownAt

\* C17: GET /feed leaves shownCount and lastShownAt of every entry as they are;
\* the two fields change only in the impression update of POST /engagement and
\* in a PATCH.
C17_FeedLeavesShownFields ==
    [][/\ FeedStep => (links' = links /\ ~ShownFieldsChange)
       /\ ShownFieldsChange => (ImpressionStep \/ PatchStep)]_vars

\* C17 happens: a GET /feed was answered for a library in which an impression or a
\* PATCH had stamped an entry.
C17_Witness ==
    /\ lastCall = [op |-> "GET /feed", status |-> 200]
    /\ \E row \in links : row.lastShownAt > 0 /\ row.shownCount > 0

(***************************************************************************)
(*                        Properties of GET /feed                          *)
(***************************************************************************)

\* The request is past maybeApplyXGBoostReranker.
Reranked(p) == greq[p].pc \in {"log", "done"}

\* C16: while the reranker is enabled and the model file is valid, every call of
\* maybeApplyXGBoostReranker with candidates returns applied = true and the
\* version of that model, also a call that starts while the first load of the
\* path is in flight.
C16_ValidModelAlwaysApplies ==
    \A p \in FeedProcs :
        (/\ Reranked(p)
         /\ reranker.enabled
         /\ reranker.file \in Models
         /\ greq[p].heuristic # <<>>)
            => /\ greq[p].applied
               /\ greq[p].rerankerVersion = reranker.file.version

\* The ids of finalCandidates.slice(offset, offset + limit) of a request.
ServedSlice(q) ==
    LET selected == Slice(q.final, q.offset, q.offset + q.limit) IN
        [j \in DOMAIN selected |-> selected[j].link.id]

\* C18: whatever becomes of the insert into ranking_events (it fails, or rows of
\* it conflict on (feedRequestId, linkId)), GET /feed answers 200 with the links
\* it serves when the insert succeeds; the error does not reach the caller.
C18_LoggingNeverFailsFeed ==
    \A p \in FeedProcs :
        greq[p].pc = "done"
            => /\ greq[p].status = 200
               /\ greq[p].links = ServedSlice(greq[p])

\* C18 happens: of two requests for the same page, the insert of one failed and
\* that of the other succeeded, and both served the same links.
C18_Witness ==
    \E p \in FeedProcs, o \in FeedProcs :
        /\ greq[p].pc = "done" /\ greq[p].logOutcome = "error"
        /\ greq[o].pc = "done" /\ greq[o].logOutcome = "inserted"
        /\ greq[p].links # <<>>
        /\ greq[p].links = greq[o].links

\* N of a request: min(total candidates, max(3 * limit, 60)).
LoggedCount(q) == Min(Len(q.final), Max(3 * q.limit, 60))

\* C19: the rows a feed request logs are the first N entries of the diversified
\* list, N = min(total, max(3 * limit, 60)), with candidateRank 1..N in that
\* order; servedRank is the 1-based position in the served slice of an entry that
\* was served and null of any other; an insert that succeeds stores them.
C19_LoggedRows ==
    \A p \in FeedProcs :
        Reranked(p) =>
            LET q == greq[p] IN
                /\ Len(q.rows) = LoggedCount(q)
                /\ \A k \in 1..LoggedCount(q) :
                       /\ q.rows[k].feedRequestId = q.feedRequestId
                       /\ q.rows[k].linkId = q.final[k].link.id
                       /\ q.rows[k].candidateRank = k
                       /\ q.rows[k].servedRank =
                              IF q.offset < k /\ k <= q.offset + q.limit
                              THEN k - q.offset ELSE NullNumber
                /\ (q.pc = "done" /\ q.logOutcome = "inserted")
                      => {q.rows[k] : k \in DOMAIN q.rows} \subseteq rankingEvents

\* C19 happens: a request logged fewer rows than it had candidates, some of
\* them served (from an offset) and some not, and the insert succeeded.
C19_Witness ==
    \E p \in FeedProcs :
        /\ greq[p].pc = "done"
        /\ greq[p].logOutcome = "inserted"
        /\ greq[p].offset > 0
        /\ Len(greq[p].rows) < Len(greq[p].final)
        /\ \E k \in DOMAIN greq[p].rows : greq[p].rows[k].servedRank = 1
        /\ \E k \in DOMAIN greq[p].rows : greq[p].rows[k].servedRank = NullNumber

(***************************************************************************)
(*              Properties of the validation of POST /engagement           *)
(***************************************************************************)

\* The events of a body that are valid: an object with a non-empty string as
\* linkId and eventType impression, dwell or open.
ValidCount(raw) ==
    Cardinality({j \in DOMAIN raw :
        /\ raw[j] # NullJson
        /\ raw[j].linkId \in {L1, L2}
        /\ raw[j].eventType \in {"impression", "dwell", "open"}})

\* C20: POST /engagement with no valid event answers 400 and changes no table;
\* with one or more the invalid events are dropped: one row per valid event is
\* inserted and the 200 response reports processed = the number of valid events.
C20_ValidationOfEvents ==
    /\ [](\A r \in Reqs :
            /\ (ereq[r].pc # "idle" /\ ValidCount(ereq[r].raw) = 0)
                   => (ereq[r].status = 400 /\ EventRowsOf(r) = {})
            /\ ereq[r].status = 400 => ValidCount(ereq[r].raw) = 0
            /\ ereq[r].status = 200
                   => /\ Processed(ereq[r]) = ValidCount(ereq[r].raw)
                      /\ Cardinality(EventRowsOf(r)) = ValidCount(ereq[r].raw)
                      /\ \A row \in EventRowsOf(r) : row.linkId \in {L1, L2})
    /\ [][\A r \in Reqs :
            (ereq'[r].status = 400 /\ ereq[r].status # 400)
                => UNCHANGED <<links, engagements, timePreferences>>]_vars

\* C20 happens: a request with valid and invalid events was answered 200.
C20_Witness ==
    /\ ereq["e1"].status = 200
    /\ Processed(ereq["e1"]) >= 1
    /\ Len(ereq["e1"].raw) > Processed(ereq["e1"])
(***************************************************************************)
(*                 Properties of the scoping by userId                     *)
(***************************************************************************)

\* The link and time-preference rows a user owns.
RowsOwnedBy(userId) ==
    <<{row \in links : row.userId = userId},
      {row \in timePreferences : row.userId = userId}>>

\* A step of one of bob's requests: his POST /engagement moves, or a PATCH or
\* DELETE (all bob's here) is answered.
BobStep == ereq'["e2"] # ereq["e2"] \/ (clock' # clock /\ ereq' = ereq)

\* C21: no step of a write request of bob (POST /engagement naming alice's
\* entry, PATCH or DELETE on it) changes or deletes a link or time-preference
\* row alice owns; PATCH with updates and DELETE on alice's entry answer 404.
C21_NoCrossUserWrites ==
    [][/\ BobStep => RowsOwnedBy("alice")' = RowsOwnedBy("alice")
       /\ \A b \in PatchBodies :
              Patch("bob", L1, b) =>
                  lastCall'.status = IF HasUpdates(b) THEN 404 ELSE 400
       /\ Delete("bob", L1) => lastCall'.status = 404]_vars

\* bob's POST /engagement with an impression and a dwell naming alice's entry
\* has finished, a PATCH or DELETE of his was answered 404, and alice holds
\* time-preference rows of her own dwell.
C21_Witness ==
    /\ ereq["e2"].pc = "done" /\ ereq["e2"].status = 200
    /\ \E j \in DOMAIN ereq["e2"].events :
           ereq["e2"].events[j] = Event(L1, "impression", 0, NoVelocity)
    /\ \E j \in DOMAIN ereq["e2"].events :
           ereq["e2"].events[j] = Event(L1, "dwell", 10000, 300)
    /\ lastCall.status = 404
    /\ \E row \in timePreferences : row.userId = "alice"
    /\ \E row \in links : row.id = L1 /\ row.userId = "alice"

(***************************************************************************)
(*                    Properties of the scoring weights                    *)
(***************************************************************************)

\* C22: for every combination of hasSemantic, hasTimePrefs and cardsShown the
\* six weights deriveWeights returns are each >= 0 and sum to 1; the semantic
\* weight is 0 without engaged embeddings, the timePref weight is 0 without
\* usable time preferences, and the session weight is 0 when cardsShown = 0.
C22_WeightsSumToOne ==
    rk.pc = "weights" =>
        /\ \A k \in DOMAIN rk.weights : rk.weights[k] >= 0
        /\ WeightSum(rk.weights) = WeightUnit
        /\ ~rk.options.hasSemantic => rk.weights.semantic = 0
        /\ ~rk.options.hasTimePrefs => rk.weights.timePref = 0
        /\ rk.options.cardsShown = 0 => rk.weights.session = 0

\* deriveWeights has returned for a long session without embeddings or time
\* preferences: all three adjustments were applied.
C22_Witness ==
    /\ rk.pc = "weights"
    /\ ~rk.options.hasSemantic /\ ~rk.options.hasTimePrefs
    /\ rk.options.cardsShown > 24
    /\ rk.weights.exploration < Pct(11)

(***************************************************************************)
(*                    Properties of the scoring formula                    *)
(***************************************************************************)

ScoreOf(scored, category) ==
    (CHOOSE c \in {scored[i] : i \in DOMAIN scored} :
         c.link.categories = <<category>>).score

SixTimesAI(session) ==
    session.engagedCategories = [i \in 1..6 |-> "AI"] /\ session.cardsShown >= 6

\* C23: with engagedCategories equal to "AI" six times and cardsShown >= 6, the
\* candidate with categories <<"AI">> gets a lower score from
\* scoreFeedCandidates than the candidate alike in all but its categories
\* <<"Tech">>.
C23_SixthAIScoresBelowTech ==
    (rk.pc = "scored" /\ SixTimesAI(rk.session)) =>
        ScoreOf(rk.scored, "AI") < ScoreOf(rk.scored, "Tech")

(***************************************************************************)
(*                 Properties of the items GET /feed returns               *)
(***************************************************************************)

\* The rows of links a request for `category` with `excludeIds` may return.
Eligible(userId, category, excludeIds) ==
    {row \in links :
        /\ row.status = "active"
        /\ row.userId = userId
        /\ category = "All" \/ category \in CategorySet(row.categories)
        /\ row.id \notin excludeIds}

\* C24: every item GET /feed returns is an active entry of the requesting user,
\* matches the requested category unless it is "All", is not in excludeIds and
\* appears once; the returned list is the slice [offset, offset + limit) of the
\* diversified ranking (of all such entries), with limit clamped to 1..50 and
\* offset to >= 0.
C24_ReturnedItems ==
    \A p \in FeedProcs :
        greq[p].pc = "done" =>
            LET q == greq[p]
                eligible == Eligible(q.userId, q.query.category, q.query.excludeIds)
                limit  == IF q.query.parsedLimit = NaN THEN 20
                          ELSE IF q.query.parsedLimit < 1 THEN 1
                          ELSE IF q.query.parsedLimit > 50 THEN 50
                          ELSE q.query.parsedLimit
                offset == IF q.query.parsedOffset = NaN \/ q.query.parsedOffset < 0
                          THEN 0 ELSE q.query.parsedOffset
            IN  /\ \A j \in DOMAIN q.links :
                       \E row \in eligible : row.id = q.links[j]
                /\ \A j, k \in DOMAIN q.links : q.links[j] = q.links[k] => j = k
                /\ {q.final[j].link : j \in DOMAIN q.final} = eligible
                /\ Len(q.final) = Cardinality(eligible)
                /\ Len(q.links) = Max(0, Min(Len(q.final), offset + limit) - offset)
                /\ \A j \in DOMAIN q.links : q.links[j] = q.final[offset + j].link.id

\* A request for "Fun" from offset 1, with a limit below 1 and excludeIds that
\* name an entry of the category, returned an item while other entries of the
\* category, and active entries of other categories, were there.
C24_Witness ==
    LET q == greq["g1"] IN
        /\ q.pc = "done"
        /\ q.query.category = "Fun" /\ q.query.parsedLimit = 0 /\ q.offset = 1
        /\ <<"seed", 4>> \in q.query.excludeIds
        /\ Len(q.links) = 1
        /\ Len(q.final) > 1
        /\ Cardinality(Eligible(q.userId, "All", {})) > Len(q.final) + 1

(***************************************************************************)
(*        Properties of the order of effects of POST /engagement           *)
(***************************************************************************)

\* The events of one kind on the entry L1 in a request's body.
EventsOfType(q, eventType) ==
    SelectSeq(q.events, LAMBDA e : e.eventType = eventType /\ e.linkId = L1)

IsSuffix(tail, seq) ==
    Len(tail) <= Len(seq) /\ tail = SubSeq(seq, Len(seq) - Len(tail) + 1, Len(seq))

\* What is behind a request at each stage.
EffectsInOrder(r) ==
    LET q == ereq[r] IN
        /\ q.pc \in {"impressions", "opens", "selectLinks", "dwell", "selectPrefs",
                     "upsert"} \/ (q.pc = "done" /\ q.status = 200)
               => Cardinality(EventRowsOf(r)) = Len(q.events)
        /\ q.pc \in {"opens", "selectLinks", "dwell", "selectPrefs", "upsert"}
               \/ (q.pc = "done" /\ q.status = 200)
               => q.impQ = <<>>
        /\ q.pc \in {"selectLinks", "dwell", "selectPrefs", "upsert"}
               \/ (q.pc = "done" /\ q.status = 200)
               => q.openQ = <<>>
        /\ q.pc \in {"selectPrefs", "upsert"} \/ (q.pc = "done" /\ q.status = 200)
               => q.dwellQ = <<>>
        /\ q.pc \in {"selectLinks", "dwell"}
               => IsSuffix(q.dwellQ, SelectSeq(q.events, IsDwell))

\* What a step of the request does to the store, by the stage it is at.
EffectOfStage(r) ==
    LET q == ereq[r]
        entry == TheEntry
        after == CHOOSE row \in links' : row.id = L1
    IN  /\ engagements' # engagements => q.pc = "insert"
        /\ links' # links =>
               \/ /\ q.pc = "impressions"
                  /\ after = [entry EXCEPT
                         !.shownCount = @ + Len(EventsOfType(q, "impression")),
                         !.lastShownAt = q.now]
               \/ /\ q.pc = "opens"
                  /\ after = [entry EXCEPT
                         !.openCount = @ + Len(EventsOfType(q, "open"))]
               \/ /\ q.pc = "dwell"
                  /\ ereq'[r].dwellQ = Tail(q.dwellQ)
                  /\ after = [entry EXCEPT
                         !.engagementScore =
                             RunningMean(entry.shownCount, @,
                                         ScoreOfSample(Head(q.dwellQ))),
                         !.avgDwellMs =
                             RunningMean(entry.shownCount, @,
                                         Head(q.dwellQ).dwellTimeMs)]

\* C25: within one POST /engagement the effects come in this order: the event
\* rows, then the impression counts on shownCount, then the open counts, then
\* the dwell updates one at a time in the order of the events; each dwell's
\* running mean is computed on a shownCount that includes all impressions of
\* the request.
C25_OrderOfEffects ==
    /\ [](EffectsInOrder("e1"))
    /\ [][EffectOfStage("e1")]_vars

\* A batch that begins with a dwell and ends with an impression: the first of
\* its two dwell updates is applied, on an entry shown twice or more with the
\* two impressions of the batch counted.
C25_Witness ==
    LET q == ereq["e1"] IN
        /\ q.pc = "dwell" /\ Len(q.dwellQ) = 1
        /\ q.events[1].eventType = "dwell"
        /\ Len(EventsOfType(q, "impression")) = 2
        /\ Len(EventsOfType(q, "open")) = 1
        /\ TheEntry.shownCount >= 2
        /\ TheEntry.openCount = 1
        /\ TheEntry.lastShownAt = q.now

(***************************************************************************)
(*          Properties of the counts POST /engagement keeps                *)
(***************************************************************************)

\* Every request of the run was answered, and none with an error.
AllCompleted ==
    /\ \A r \in Reqs : ereq[r].pc = "done"
    /\ \E r \in Reqs : ereq[r].status = 200

\* The open events of request r that reach alice's entry L1.
OpensOn(r) ==
    IF ereq[r].userId = "alice"
    THEN SelectSeq(ereq[r].events, LAMBDA e : e.eventType = "open" /\ e.linkId = L1)
    ELSE <<>>

\* C26: once the POST /engagement requests have completed, in any interleaving,
\* the entry's shownCount and openCount have grown by exactly the number of
\* valid impression and open events its owner sent for it (bob's events on
\* alice's entry count for nothing, and bob's entry is as it was); lastShownAt
\* is the `now` of a request with an impression for the entry, or was never set.
C26_CountsAddUp ==
    AllCompleted =>
        /\ TheEntry.shownCount =
               1 + Len(ImpressionsOn("e1")) + Len(ImpressionsOn("e2"))
        /\ TheEntry.openCount = Len(OpensOn("e1")) + Len(OpensOn("e2"))
        /\ TheEntry.lastShownAt \in
               {ereq[r].now : r \in {x \in Reqs : ImpressionsOn(x) # <<>>}}
               \cup {y \in {0} : \A r \in Reqs : ImpressionsOn(r) = <<>>}
        /\ \A row \in links :
               row.id = L2 => row.shownCount = 1 /\ row.openCount = 0
                              /\ row.lastShownAt = 0

\* Both requests are alice's and overlapped: e2, which arrived later, added its
\* impression before e1 added its impression and its open.
C26_Witness ==
    /\ AllCompleted
    /\ Len(ImpressionsOn("e1")) = 1 /\ Len(OpensOn("e1")) = 1
    /\ Len(ImpressionsOn("e2")) = 1
    /\ ereq["e2"].now > ereq["e1"].now
    /\ TheEntry.lastShownAt = ereq["e1"].now
    /\ TheEntry.shownCount = 3

(***************************************************************************)
(*                      Properties of evaluateTree                         *)
(***************************************************************************)

\* Where a walk stands: at the node of an index, or at its end with a value.
AtNode(index) == <<"node", index>>
Ended(value)  == <<"end", value>>

\* One visit: from the node of an index to the next, or to the end: a leaf ends
\* the walk with its value, a missing node or a negative index with 0.
Visit(tree, featureVector) ==
    [at \in {AtNode(i) : i \in 0..(Len(tree) - 1)} \cup
            {Ended(v) : v \in {0} \cup {tree[i].leaf : i \in DOMAIN tree}} |->
        IF at[1] = "end" THEN at
        ELSE LET node == tree[at[2] + 1]
                 next == NextIndex(node, featureVector)
             IN  IF node.isLeaf THEN Ended(node.leaf)
                 ELSE IF next < 0 \/ next >= Len(tree) THEN Ended(0)
                 ELSE AtNode(next)]

\* f after f, and f doubled `times` times: 2^times visits.
Twice(f) == [at \in DOMAIN f |-> f[f[at]]]
RECURSIVE Doubled(_, _)
Doubled(f, times) == IF times = 0 THEN f ELSE Doubled(Twice(f), times - 1)

\* The value at the end of the walk from node 0 if it ends within 2^times visits,
\* 0 if it does not (or there is no node 0).
ValueWithin(tree, featureVector, times) ==
    IF tree = <<>> THEN 0
    ELSE LET at == Doubled(Visit(tree, featureVector), times)[AtNode(0)] IN
             IF at[1] = "end" THEN at[2] ELSE 0

\* 2^11 = GuardLimit visits; within 2^12 visits every walk on a tree of
\* Trees has ended or is in a cycle.
GuardBits == 11

\* Every round visits a node: the guard grows until the call returns.
GuardGrows == rk'.pc = "returned" \/ (rk'.pc = "while" /\ rk'.guard >= rk.guard)

\* C27 as stated: evaluateTree terminates for every tree, visits at most 2048
\* nodes, returns 0 when it meets a cycle, a missing node or a negative index,
\* and the value of the leaf its walk ends at otherwise.
C27_LeafOtherwise ==
    /\ [](rk.guard <= GuardLimit)
    /\ [](rk.pc = "returned" =>
             rk.result = ValueWithin(Trees[rk.tree], rk.featureVector, GuardBits + 1))
    /\ <>(rk.pc = "returned")

\* C27, amended: evaluateTree terminates for every tree, visits at most 2048
\* nodes, and returns the value of the leaf its walk ends at when it ends there
\* within 2048 visits; it returns 0 otherwise: on a cycle, a missing node, a
\* negative index, and on a path of more than 2048 nodes.
C27_LeafWithinGuard ==
    /\ [](rk.guard <= GuardLimit)
    /\ [](rk.pc = "returned" =>
             rk.result = ValueWithin(Trees[rk.tree], rk.featureVector, GuardBits))
    /\ [][GuardGrows]_vars
    /\ <>(rk.pc = "returned")

\* The walk on a cycle has returned 0 after 2048 visits.
C27_Witness ==
    /\ rk.pc = "returned"
    /\ Trees[rk.tree] = <<Split(1, 1, FALSE), Split(0, 0, FALSE)>>
    /\ rk.guard = GuardLimit
    /\ rk.result = 0

(***************************************************************************)
(*                 Properties of the time preferences                      *)
(***************************************************************************)

\* The interaction scores of the contributions to alice's rows: the one made
\* before the run, and one for every dwell event of hers on her entry.
ContributedScores ==
    <<computeEngagementScore(10000, 300)>> \o
    [j \in DOMAIN (DwellsOn("e1") \o DwellsOn("e2")) |->
        ScoreOfSample((DwellsOn("e1") \o DwellsOn("e2"))[j])]

\* C28: once the POST /engagement requests have completed, in any interleaving,
\* every time_preferences row has as sampleCount the number of contributions made
\* to its key and as avgEngagement their mean (to a thousandth): no update of an
\* overlapping request is lost.
C28_NoContributionLost ==
    (\A r \in Reqs : ereq[r].pc = "done" /\ ereq[r].status = 200) =>
        \A row \in timePreferences :
            /\ row.sampleCount = Len(ContributedScores)
            /\ row.avgEngagement * row.sampleCount - SumSeq(ContributedScores)
                   \in (0 - row.sampleCount)..row.sampleCount

(***************************************************************************)
(*               Properties of the hostname safety cache                   *)
(***************************************************************************)

\* No blocked hostname and no literal of a reserved address is recorded as safe.
NoReservedSafe ==
    \A h \in Hosts :
        (isBlockedHostname(h) \/ (isIpLiteral(h) /\ isPrivateIp(h.ip)))
            => HOST_SAFETY_CACHE[h] # "safe"

\* An entry of the cache keeps its value.
EntriesKept ==
    \A h \in Hosts :
        HOST_SAFETY_CACHE[h] # "absent" => HOST_SAFETY_CACHE'[h] = HOST_SAFETY_CACHE[h]

\* C29: in every reachable state of the cache no blocked hostname and no literal
\* of a reserved address is mapped to safe, and a hostname that has an entry
\* keeps its value for the life of the process.
C29_CacheEntriesFinal == []NoReservedSafe /\ [][EntriesKept]_vars

(***************************************************************************)
(*              Properties of the log of the served entries                *)
(***************************************************************************)

\* C30: when the insert into ranking_events of a feed request succeeds, every
\* entry the request served has a row with the request's feedRequestId, and on
\* that row servedRank = candidateRank - offset; for every limit in 1..50 and
\* every offset >= 0.
C30_ServedEntriesLogged ==
    \A p \in FeedProcs :
        (greq[p].pc = "done" /\ greq[p].logOutcome = "inserted") =>
            \A j \in DOMAIN greq[p].links :
                \E row \in rankingEvents :
                    /\ row.feedRequestId = greq[p].feedRequestId
                    /\ row.linkId = greq[p].links[j]
                    /\ row.servedRank = row.candidateRank - greq[p].offset

====
